---- MODULE Spec2Model ----
(***************************************************************************)
(* A model of the match-3 engine of "Free The Man": the tile and grid      *)
(* data model, MatchResolver, GravitySystem, CharacterController,          *)
(* LevelManager and the move lifecycle of Game.handleSwap with its         *)
(* animation awaits as suspension points.                                   *)
(***************************************************************************)
EXTENDS Integers, Sequences, FiniteSets, TLC

(***************************************************************************)
(* CONFIG (js/config.js)                                                    *)
(***************************************************************************)
EMPTY == "empty"
STONE == "stone"
EXIT == "exit"
CHARACTER == "character"
NULL == "null"

MATCHABLE_COLORS == {"red", "blue", "green", "yellow", "purple"}

LINE_H == "line-h"
LINE_V == "line-v"
BOMB == "bomb"

MIN_MATCH == 3
LINE_CLEAR_COUNT == 4
BOMB_COUNT == 5

IDLE == "idle"
SWAPPING == "swapping"
MATCHING == "matching"
FALLING == "falling"
CHARACTER_MOVING == "character_moving"
WIN == "win"
LOSE == "lose"

\* DIRECTIONS in the order of Object.values: UP, DOWN, LEFT, RIGHT
DIRECTIONS == << <<0, -1>>, <<0, 1>>, <<-1, 0>>, <<1, 0>> >>

(***************************************************************************)
(* Bounds of the model                                                      *)
(***************************************************************************)
\* handleSwap bodies that may pass their guard in one run
MaxSwaps == 2
\* loadCurrentLevel calls (start, restart, next level) in one run
MaxLoads == 2
\* seeds of the random stream that fills a board at level load
MaxSeed == 0
\* rounds of the cascade loop one handleSwap call may run
MaxRounds == 10

(***************************************************************************)
(* Tile                                                                     *)
(***************************************************************************)
\* new Tile(type, x, y): the stored coordinates always equal the cell the
\* tile is in (setTile and swap rewrite them), so the cell is the coordinate.
Tile(type) ==
    [type |-> type, iceLayer |-> 0, isLocked |-> FALSE, specialType |-> NULL]

\* what getTile returns outside the grid
NullTile == Tile(NULL)

\* isMatchable with the test of the lock left out
isMatchableByColour(t) == t.type \in MATCHABLE_COLORS

isMatchable(t) == t.type \in MATCHABLE_COLORS /\ ~t.isLocked
isEmpty(t) == t.type = EMPTY
isBlocker(t) == t.type = STONE
isCharacter(t) == t.type = CHARACTER
isExit(t) == t.type = EXIT
\* isFalling is never set by any code path, so it is constantly false
canSwap(t) == isMatchable(t) /\ ~t.isLocked

setSpecial(t, specialType) == [t EXCEPT !.specialType = specialType]
addIce(t, layers) == [t EXCEPT !.iceLayer = layers]
\* removeIceLayer taking every layer off at once
removeAllIce(t) == [t EXCEPT !.iceLayer = 0]

removeIceLayer(t) == IF t.iceLayer > 0 THEN [t EXCEPT !.iceLayer = @ - 1] ELSE t
lock(t) == [t EXCEPT !.isLocked = TRUE]
unlock(t) == [t EXCEPT !.isLocked = FALSE]

(***************************************************************************)
(* GridManager: a record [width, height, grid, tileTypes, exitPosition,     *)
(* characterPosition, selectedTile]; grid maps <<x, y>> to a Tile.          *)
(***************************************************************************)
Pos(x, y) == [x |-> x, y |-> y]
NoPos == [x |-> -1, y |-> -1]

Cells(w, h) == (0 .. w - 1) \X (0 .. h - 1)

isValidPosition(gm, x, y) ==
    x >= 0 /\ x < gm.width /\ y >= 0 /\ y < gm.height

getTile(gm, x, y) ==
    IF isValidPosition(gm, x, y) THEN gm.grid[<<x, y>>] ELSE NullTile

setTile(gm, x, y, tile) ==
    IF isValidPosition(gm, x, y)
    THEN [gm EXCEPT !.grid = [c \in DOMAIN gm.grid |->
                                  IF c = <<x, y>> THEN tile ELSE gm.grid[c]]]
    ELSE gm

setEmpty(gm, x, y) == setTile(gm, x, y, Tile(EMPTY))

Abs(n) == IF n < 0 THEN -n ELSE n

areAdjacent(x1, y1, x2, y2) ==
    LET dx == Abs(x1 - x2)
        dy == Abs(y1 - y2)
    IN  (dx = 1 /\ dy = 0) \/ (dx = 0 /\ dy = 1)

\* swap with the assignment to the second cell left out
swapFirstCell(gm, x1, y1, x2, y2) ==
    [gm EXCEPT !.grid = [@ EXCEPT ![<<x1, y1>>] = gm.grid[<<x2, y2>>]]]

\* swap made only when the two cells are adjacent
swapAdjacentOnly(gm, x1, y1, x2, y2) ==
    IF areAdjacent(x1, y1, x2, y2)
    THEN [gm EXCEPT !.grid = [c \in DOMAIN gm.grid |->
                                 IF c = <<x1, y1>> THEN gm.grid[<<x2, y2>>]
                                 ELSE IF c = <<x2, y2>> THEN gm.grid[<<x1, y1>>]
                                 ELSE gm.grid[c]]]
    ELSE gm

\* exchanges the two tile objects, with everything they carry
swap(gm, x1, y1, x2, y2) ==
    LET tile1 == gm.grid[<<x1, y1>>]
        tile2 == gm.grid[<<x2, y2>>]
    IN  [gm EXCEPT !.grid = [@ EXCEPT ![<<x1, y1>>] = tile2,
                                      ![<<x2, y2>>] = tile1]]

\* updateCharacterPosition with the assignment of characterPosition left out
clearOldCharacterCell(gm, oldX, oldY, newX, newY) ==
    IF ~(oldX = gm.exitPosition.x /\ oldY = gm.exitPosition.y)
    THEN setEmpty(gm, oldX, oldY)
    ELSE gm

updateCharacterPosition(gm, oldX, oldY, newX, newY) ==
    LET g1 == IF ~(oldX = gm.exitPosition.x /\ oldY = gm.exitPosition.y)
              THEN setEmpty(gm, oldX, oldY)
              ELSE gm
    IN  [g1 EXCEPT !.characterPosition = Pos(newX, newY)]

\* positions of the in-bounds neighbours, in the order of DIRECTIONS
getAdjacentPositions(gm, x, y) ==
    SelectSeq([i \in 1 .. 4 |-> Pos(x + DIRECTIONS[i][1], y + DIRECTIONS[i][2])],
              LAMBDA p : isValidPosition(gm, p.x, p.y))

getAdjacentTiles(gm, x, y) ==
    LET ps == getAdjacentPositions(gm, x, y)
    IN  [i \in 1 .. Len(ps) |-> getTile(gm, ps[i].x, ps[i].y)]

(***************************************************************************)
(* MatchResolver                                                            *)
(***************************************************************************)
\* tile?.isMatchable() ? tile.type : null
matchType(gm, x, y) ==
    LET tile == getTile(gm, x, y)
    IN  IF tile.type # NULL /\ isMatchable(tile) THEN tile.type ELSE NULL

\* the inner loop of the horizontal scan: x runs to width inclusive, where
\* getTile gives null and closes the last run
RECURSIVE scanRow(_, _, _, _, _, _)
scanRow(gm, y, x, matchStart, currentType, matches) ==
    IF x > gm.width THEN matches
    ELSE LET tileType == matchType(gm, x, y)
         IN  IF tileType = currentType /\ currentType # NULL
             THEN scanRow(gm, y, x + 1, matchStart, currentType, matches)
             ELSE LET matchLength == x - matchStart
                      m == [tiles |-> [i \in 1 .. matchLength |->
                                          Pos(matchStart + i - 1, y)],
                            type |-> "horizontal",
                            length |-> matchLength,
                            color |-> currentType]
                  IN  scanRow(gm, y, x + 1, x, tileType,
                              IF matchLength >= MIN_MATCH /\ currentType # NULL
                              THEN Append(matches, m)
                              ELSE matches)

\* the inner loop of the vertical scan
RECURSIVE scanColumn(_, _, _, _, _, _)
scanColumn(gm, x, y, matchStart, currentType, matches) ==
    IF y > gm.height THEN matches
    ELSE LET tileType == matchType(gm, x, y)
         IN  IF tileType = currentType /\ currentType # NULL
             THEN scanColumn(gm, x, y + 1, matchStart, currentType, matches)
             ELSE LET matchLength == y - matchStart
                      m == [tiles |-> [i \in 1 .. matchLength |->
                                          Pos(x, matchStart + i - 1)],
                            type |-> "vertical",
                            length |-> matchLength,
                            color |-> currentType]
                  IN  scanColumn(gm, x, y + 1, y, tileType,
                                 IF matchLength >= MIN_MATCH /\ currentType # NULL
                                 THEN Append(matches, m)
                                 ELSE matches)

RECURSIVE scanRows(_, _, _)
scanRows(gm, y, matches) ==
    IF y >= gm.height THEN matches
    ELSE scanRows(gm, y + 1, scanRow(gm, y, 0, 0, NULL, matches))

RECURSIVE scanColumns(_, _, _)
scanColumns(gm, x, matches) ==
    IF x >= gm.width THEN matches
    ELSE scanColumns(gm, x + 1, scanColumn(gm, x, 0, 0, NULL, matches))

\* the scan of the rows alone
findRowMatches(gm) == scanRows(gm, 0, <<>>)

\* all rows first, then all columns
findAllMatches(gm) == scanColumns(gm, 0, scanRows(gm, 0, <<>>))

\* the special a match record gives, or NoSpecial (null)
NoSpecial == [type |-> NULL, position |-> NoPos, color |-> NULL]

\* getSpecialTileForMatch with the line special along the run instead of
\* across it
getSpecialTileAlongRun(match) ==
    IF match.length >= BOMB_COUNT
    THEN [type |-> BOMB,
          position |-> match.tiles[(Len(match.tiles) \div 2) + 1],
          color |-> match.color]
    ELSE IF match.length >= LINE_CLEAR_COUNT
    THEN [type |-> IF match.type = "horizontal" THEN LINE_H ELSE LINE_V,
          position |-> match.tiles[(Len(match.tiles) \div 2) + 1],
          color |-> match.color]
    ELSE NoSpecial

getSpecialTileForMatch(match) ==
    IF match.length >= BOMB_COUNT
    THEN [type |-> BOMB,
          position |-> match.tiles[(Len(match.tiles) \div 2) + 1],
          color |-> match.color]
    ELSE IF match.length >= LINE_CLEAR_COUNT
    THEN [type |-> IF match.type = "horizontal" THEN LINE_V ELSE LINE_H,
          position |-> match.tiles[(Len(match.tiles) \div 2) + 1],
          color |-> match.color]
    ELSE NoSpecial

\* the cells a special tile at (x, y) clears when activated, in the order
\* the code lists them: cells outside the grid, stones, the character tile
\* and the exit are left out
getSpecialTileAffectedPositions(gm, x, y, specialType) ==
    LET row == [i \in 1 .. gm.width |-> Pos(i - 1, y)]
        column == [i \in 1 .. gm.height |-> Pos(x, i - 1)]
        block == [i \in 1 .. 9 |-> Pos((x - 1) + ((i - 1) % 3),
                                          (y - 1) + ((i - 1) \div 3))]
        affected(p) ==
            LET tile == getTile(gm, p.x, p.y)
            IN  tile.type # NULL /\ ~isBlocker(tile) /\ ~isCharacter(tile)
                /\ ~isExit(tile)
    IN  CASE specialType = LINE_H -> SelectSeq(row, affected)
          [] specialType = LINE_V -> SelectSeq(column, affected)
          [] specialType = BOMB -> SelectSeq(block, affected)
          [] OTHER -> <<>>

unlockAdjacentTiles(gm, x, y) ==
    LET ps == getAdjacentPositions(gm, x, y)
        adj == {<<ps[i].x, ps[i].y>> : i \in 1 .. Len(ps)}
    IN  [gm EXCEPT !.grid = [c \in DOMAIN @ |->
            IF c \in adj /\ @[c].isLocked THEN unlock(@[c]) ELSE @[c]]]

\* the body of match.tiles.forEach without the test of the processed keys
processMatchTileAgain(st, pos) ==
    LET tile == getTile(st.gm, pos.x, pos.y)
        melted == removeIceLayer(tile)
        gm1 == IF tile.iceLayer > 0
               THEN setTile(st.gm, pos.x, pos.y, melted)
               ELSE st.gm
    IN  IF tile.type = NULL THEN st
        ELSE IF tile.iceLayer > 0 /\ melted.iceLayer > 0
        THEN [st EXCEPT !.gm = gm1]
        ELSE [st EXCEPT !.gm = unlockAdjacentTiles(gm1, pos.x, pos.y),
                        !.clearedPositions = Append(@, pos)]

\* the body of match.tiles.forEach with a tile that has ice left alone for
\* the round whatever the number of layers left
processMatchTileIceAbsorbs(st, pos) ==
    IF <<pos.x, pos.y>> \in st.processed THEN st
    ELSE LET tile == getTile(st.gm, pos.x, pos.y)
             seen == st.processed \cup {<<pos.x, pos.y>>}
         IN  IF tile.type = NULL THEN [st EXCEPT !.processed = seen]
             ELSE IF tile.iceLayer > 0
             THEN [st EXCEPT !.gm = setTile(st.gm, pos.x, pos.y,
                                            removeIceLayer(tile)),
                             !.processed = seen]
             ELSE [st EXCEPT !.gm = unlockAdjacentTiles(st.gm, pos.x, pos.y),
                             !.processed = seen,
                             !.clearedPositions = Append(@, pos)]

\* the body of match.tiles.forEach in processMatches; st carries the grid
\* manager, the processed keys and the cleared positions so far
processMatchTile(st, pos) ==
    IF <<pos.x, pos.y>> \in st.processed THEN st
    ELSE LET tile == getTile(st.gm, pos.x, pos.y)
             seen == st.processed \cup {<<pos.x, pos.y>>}
             melted == removeIceLayer(tile)
             gm1 == IF tile.iceLayer > 0
                    THEN setTile(st.gm, pos.x, pos.y, melted)
                    ELSE st.gm
         IN  IF tile.type = NULL THEN [st EXCEPT !.processed = seen]
             ELSE IF tile.iceLayer > 0 /\ melted.iceLayer > 0
             THEN [st EXCEPT !.gm = gm1, !.processed = seen]
             ELSE [st EXCEPT !.gm = unlockAdjacentTiles(gm1, pos.x, pos.y),
                             !.processed = seen,
                             !.clearedPositions = Append(@, pos)]

RECURSIVE processMatchTiles(_, _, _)
processMatchTiles(st, tiles, i) ==
    IF i > Len(tiles) THEN st
    ELSE processMatchTiles(processMatchTile(st, tiles[i]), tiles, i + 1)

RECURSIVE processMatchesFrom(_, _, _)
processMatchesFrom(st, matches, k) ==
    IF k > Len(matches) THEN st
    ELSE LET special == getSpecialTileForMatch(matches[k])
             st1 == IF special.type # NULL
                    THEN [st EXCEPT !.specialTiles = Append(@, special)]
                    ELSE st
         IN  processMatchesFrom(processMatchTiles(st1, matches[k].tiles, 1),
                                matches, k + 1)

\* returns [gm, processed, clearedPositions, specialTiles]: gm is the grid
\* manager with the ice and lock changes the call makes to the tiles
processMatches(gm, matches) ==
    processMatchesFrom([gm |-> gm, processed |-> {},
                        clearedPositions |-> <<>>, specialTiles |-> <<>>],
                       matches, 1)

\* the number of consecutive tiles from (x, y), stepping by (dx, dy), that
\* have the given type and are matchable
RECURSIVE countRun(_, _, _, _, _, _)
countRun(gm, x, y, dx, dy, type) ==
    IF ~isValidPosition(gm, x, y) THEN 0
    ELSE LET t == getTile(gm, x, y)
         IN  IF t.type = type /\ isMatchable(t)
             THEN 1 + countRun(gm, x + dx, y + dy, dx, dy, type)
             ELSE 0

\* checkForMatchAt with the horizontal count alone
checkForMatchAtInRow(gm, x, y) ==
    LET tile == getTile(gm, x, y)
        hCount == 1 + countRun(gm, x - 1, y, -1, 0, tile.type)
                    + countRun(gm, x + 1, y, 1, 0, tile.type)
    IN  IF tile.type = NULL \/ ~isMatchable(tile) THEN FALSE
        ELSE hCount >= MIN_MATCH

\* MatchResolver.checkForMatchAt
checkForMatchAt(gm, x, y) ==
    LET tile == getTile(gm, x, y)
        hCount == 1 + countRun(gm, x - 1, y, -1, 0, tile.type)
                    + countRun(gm, x + 1, y, 1, 0, tile.type)
        vCount == 1 + countRun(gm, x, y - 1, 0, -1, tile.type)
                    + countRun(gm, x, y + 1, 0, 1, tile.type)
    IN  IF tile.type = NULL \/ ~isMatchable(tile) THEN FALSE
        ELSE IF hCount >= MIN_MATCH THEN TRUE
        ELSE vCount >= MIN_MATCH

checkSwapForMatches(gm, x1, y1, x2, y2) ==
    checkForMatchAt(gm, x1, y1) \/ checkForMatchAt(gm, x2, y2)

(***************************************************************************)
(* GravitySystem                                                            *)
(***************************************************************************)
\* isPositionFixed by the tile alone, the character's position not asked
isPositionFixedByTile(gm, x, y) ==
    LET tile == getTile(gm, x, y)
    IN  \/ (tile.type # NULL /\ isExit(tile))
        \/ (tile.type # NULL /\ isBlocker(tile))

isPositionFixed(gm, x, y) ==
    LET tile == getTile(gm, x, y)
        charPos == gm.characterPosition
    IN  \/ (x = charPos.x /\ y = charPos.y)
        \/ (tile.type # NULL /\ isExit(tile))
        \/ (tile.type # NULL /\ isBlocker(tile))

\* the y of the column's non-fixed empty cells, from the bottom row up
RECURSIVE emptyPositions(_, _, _)
emptyPositions(gm, x, y) ==
    IF y < 0 THEN <<>>
    ELSE IF ~isPositionFixed(gm, x, y) /\ isEmpty(getTile(gm, x, y))
    THEN <<y>> \o emptyPositions(gm, x, y - 1)
    ELSE emptyPositions(gm, x, y - 1)

\* the search above an empty cell: the y of the nearest tile that can fall,
\* or -1; fixed cells, empty cells and unmatchable tiles are skipped
RECURSIVE findFalling(_, _, _)
findFalling(gm, x, searchY) ==
    IF searchY < 0 THEN -1
    ELSE LET tile == getTile(gm, x, searchY)
         IN  IF isPositionFixed(gm, x, searchY)
             THEN findFalling(gm, x, searchY - 1)
             ELSE IF ~isEmpty(tile) /\ ~isBlocker(tile) /\ isMatchable(tile)
             THEN searchY
             ELSE findFalling(gm, x, searchY - 1)

\* emptyPositions.forEach of one column; st is [gm, moved]
RECURSIVE fillEmptyPositions(_, _, _, _)
fillEmptyPositions(st, x, empties, i) ==
    IF i > Len(empties) THEN st
    ELSE LET emptyY == empties[i]
             searchY == findFalling(st.gm, x, emptyY - 1)
             tile == getTile(st.gm, x, searchY)
         IN  IF searchY < 0
             THEN fillEmptyPositions(st, x, empties, i + 1)
             ELSE fillEmptyPositions(
                      [gm |-> setEmpty(setTile(st.gm, x, emptyY, tile), x, searchY),
                       moved |-> st.moved + 1],
                      x, empties, i + 1)

RECURSIVE applyGravityColumns(_, _)
applyGravityColumns(st, x) ==
    IF x >= st.gm.width THEN st
    ELSE applyGravityColumns(
             fillEmptyPositions(st, x, emptyPositions(st.gm, x, st.gm.height - 1), 1),
             x + 1)

\* one pass; returns [gm, moved] with moved = movements.length
applyGravity(gm) == applyGravityColumns([gm |-> gm, moved |-> 0], 0)

\* applyGravityFully stopping after the first pass
applyGravityOnce(gm) == applyGravity(gm).gm

RECURSIVE applyGravityFully(_)
applyGravityFully(gm) ==
    LET pass == applyGravity(gm)
    IN  IF pass.moved > 0 THEN applyGravityFully(pass.gm) ELSE pass.gm

\* the colours createNonMatchingTile may draw for cell (x, y): the palette
\* without the colour of two equal matchable tiles to the left and without
\* that of two equal tiles above; the whole palette if nothing is left
RemoveType(types, type) == SelectSeq(types, LAMBDA t : t # type)

\* createNonMatchingTile with no colour taken out of the palette
allTypes(gm, x, y, tileTypes) == tileTypes

nonMatchingTypes(gm, x, y, tileTypes) ==
    LET left1 == gm.grid[<<x - 1, y>>]
        left2 == gm.grid[<<x - 2, y>>]
        top1 == gm.grid[<<x, y - 1>>]
        top2 == gm.grid[<<x, y - 2>>]
        a1 == IF x >= 2 /\ left1.type # NULL /\ left2.type # NULL
                 /\ left1.type = left2.type /\ isMatchable(left1)
              THEN RemoveType(tileTypes, left1.type)
              ELSE tileTypes
        a2 == IF y >= 2 /\ top1.type # NULL /\ top2.type # NULL
                 /\ top1.type = top2.type /\ isMatchable(top1)
              THEN RemoveType(a1, top1.type)
              ELSE a1
    IN  IF Len(a2) > 0 THEN a2 ELSE tileTypes

SeqRange(q) == {q[i] : i \in 1 .. Len(q)}

\* the cells spawnNewTiles visits, column by column, top to bottom
spawnOrder(gm) ==
    [k \in 1 .. gm.width * gm.height |->
        <<(k - 1) \div gm.height, (k - 1) % gm.height>>]

\* every grid manager spawnNewTiles can leave, one per sequence of draws
RECURSIVE spawnFrom(_, _, _)
spawnFrom(gms, order, k) ==
    IF k > Len(order) THEN gms
    ELSE LET x == order[k][1]
             y == order[k][2]
             step(gm) ==
                 IF ~isPositionFixed(gm, x, y) /\ isEmpty(getTile(gm, x, y))
                 THEN {setTile(gm, x, y, Tile(t)) :
                          t \in SeqRange(nonMatchingTypes(gm, x, y, gm.tileTypes))}
                 ELSE {gm}
         IN  spawnFrom(UNION {step(gm) : gm \in gms}, order, k + 1)

spawnNewTiles(gm) == spawnFrom({gm}, spawnOrder(gm), 1)

\* newTiles.length > 0
hasSpawnTargets(gm) ==
    \E c \in DOMAIN gm.grid :
        ~isPositionFixed(gm, c[1], c[2]) /\ isEmpty(gm.grid[c])

\* every grid manager one processGravity call can leave
processGravity(gm) ==
    LET settled == applyGravityFully(gm)
    IN  IF hasSpawnTargets(settled)
        THEN {applyGravityFully(g) : g \in spawnNewTiles(settled)}
        ELSE {settled}

(***************************************************************************)
(* Levels and GridManager.initialize                                        *)
(***************************************************************************)
\* a blocker entry of a level: { type, x, y } with no iceLayer and no locked
Blocker(type, x, y) ==
    [type |-> type, x |-> x, y |-> y, iceLayer |-> 0, locked |-> FALSE]

\* DEFAULT_LEVELS, scaled to boards TLC can enumerate: level 1 has the exit
\* directly above the character's start, level 2 has it two rows above
LEVELS ==
    << [gridWidth |-> 3, gridHeight |-> 3, maxMoves |-> 1,
        characterStart |-> Pos(1, 2), exitPosition |-> Pos(1, 1),
        blockers |-> << Blocker(STONE, 0, 1), Blocker(STONE, 0, 2),
                        Blocker(STONE, 2, 2) >>,
        tileTypes |-> <<"red", "blue">>],
       [gridWidth |-> 3, gridHeight |-> 3, maxMoves |-> 1,
        characterStart |-> Pos(1, 2), exitPosition |-> Pos(1, 0),
        blockers |-> << Blocker(STONE, 0, 0), Blocker(STONE, 0, 2),
                        Blocker(STONE, 2, 2) >>,
        tileTypes |-> <<"red", "blue", "green">>] >>

\* Math.random() as the stream seed, seed + 1, ... over 0 .. 15; a draw of
\* Math.floor(Math.random() * n) is (r * n) \div 16
nextRandom(r) == (r + 1) % 16

randomIndex(r, n) == (r * n) \div 16

placeBlocker(grid, blocker) ==
    LET t0 == Tile(blocker.type)
        t1 == IF blocker.iceLayer > 0 THEN addIce(t0, blocker.iceLayer) ELSE t0
        t2 == IF blocker.locked THEN lock(t1) ELSE t1
    IN  [grid EXCEPT ![<<blocker.x, blocker.y>>] = t2]

RECURSIVE placeBlockers(_, _, _)
placeBlockers(grid, blockers, i) ==
    IF i > Len(blockers) THEN grid
    ELSE placeBlockers(placeBlocker(grid, blockers[i]), blockers, i + 1)

\* the fill loop of initialize: rows from the top, cells from the left,
\* every null cell gets createNonMatchingTile's draw from the stream r
RECURSIVE fillRemaining(_, _, _)
fillRemaining(gm, k, r) ==
    IF k >= gm.width * gm.height THEN gm
    ELSE LET x == k % gm.width
             y == k \div gm.width
             types == nonMatchingTypes(gm, x, y, gm.tileTypes)
             randomType == types[randomIndex(r, Len(types)) + 1]
         IN  IF gm.grid[<<x, y>>].type = NULL
             THEN fillRemaining(setTile(gm, x, y, Tile(randomType)), k + 1,
                                nextRandom(r))
             ELSE fillRemaining(gm, k + 1, r)

\* new GridManager(width, height) and the head of initialize(level): the
\* blockers, the exit and the character's cell placed, every other cell null
placeFixed(level) ==
    LET nulls == [c \in Cells(level.gridWidth, level.gridHeight) |-> NullTile]
        blocked == placeBlockers(nulls, level.blockers, 1)
        withExit == [blocked EXCEPT
                       ![<<level.exitPosition.x, level.exitPosition.y>>] = Tile(EXIT)]
        withChar == [withExit EXCEPT
                       ![<<level.characterStart.x, level.characterStart.y>>] = Tile(EMPTY)]
    IN  [width |-> level.gridWidth,
         height |-> level.gridHeight,
         grid |-> withChar,
         tileTypes |-> level.tileTypes,
         exitPosition |-> level.exitPosition,
         characterPosition |-> level.characterStart,
         selectedTile |-> NoPos]

\* new GridManager(width, height) followed by initialize(level), with the
\* random stream started at seed
initialize(level, seed) == fillRemaining(placeFixed(level), 0, seed)

\* the fill loop of initialize under every sequence of draws: the grid
\* managers it can leave, one per sequence of draws
RECURSIVE fillRemainingAny(_, _)
fillRemainingAny(gm, k) ==
    LET x == k % gm.width
        y == k \div gm.width
        types == nonMatchingTypes(gm, x, y, gm.tileTypes)
        RECURSIVE drawn(_)
        drawn(i) ==
            IF i > Len(types) THEN <<>>
            ELSE fillRemainingAny(setTile(gm, x, y, Tile(types[i])), k + 1)
                     \o drawn(i + 1)
    IN  IF k >= gm.width * gm.height THEN <<gm>>
        ELSE IF gm.grid[<<x, y>>].type = NULL THEN drawn(1)
        ELSE fillRemainingAny(gm, k + 1)

\* initialize(level) under every sequence of draws
initializeAny(level) == fillRemainingAny(placeFixed(level), 0)

(***************************************************************************)
(* CharacterController: a record [character, exitY], character = [x, y]     *)
(***************************************************************************)
\* tryMoveUp with the test of the tile above left out
tryMoveUpUntested(gm, cc) ==
    LET x == cc.character.x
        y == cc.character.y
    IN  IF y <= 0 THEN [gm |-> gm, cc |-> cc, moved |-> FALSE]
        ELSE [gm |-> updateCharacterPosition(gm, x, y, x, y - 1),
              cc |-> [cc EXCEPT !.character.y = y - 1],
              moved |-> TRUE]

\* returns [gm, cc, moved]; moved is whether a movement record is returned
tryMoveUp(gm, cc) ==
    LET x == cc.character.x
        y == cc.character.y
        tileAbove == getTile(gm, x, y - 1)
        canMove == tileAbove.type # NULL /\ (isEmpty(tileAbove) \/ isExit(tileAbove))
    IN  IF y <= 0 THEN [gm |-> gm, cc |-> cc, moved |-> FALSE]
        ELSE IF canMove
        THEN [gm |-> updateCharacterPosition(gm, x, y, x, y - 1),
              cc |-> [cc EXCEPT !.character.y = y - 1],
              moved |-> TRUE]
        ELSE [gm |-> gm, cc |-> cc, moved |-> FALSE]

\* hasEscaped with the comparison made strict: the exit row itself does not count
hasEscapedStrict(cc) == cc.character.y < cc.exitY

hasEscaped(cc) == cc.character.y <= cc.exitY

\* returns [gm, cc, movements]; movements is the list of [fromY, toY, x]
RECURSIVE moveLoop(_, _, _)
moveLoop(gm, cc, movements) ==
    LET step == tryMoveUp(gm, cc)
        moves == Append(movements, [fromY |-> cc.character.y,
                                    toY |-> cc.character.y - 1,
                                    x |-> cc.character.x])
    IN  IF ~step.moved THEN [gm |-> gm, cc |-> cc, movements |-> movements]
        ELSE IF hasEscaped(step.cc)
        THEN [gm |-> step.gm, cc |-> step.cc, movements |-> moves]
        ELSE moveLoop(step.gm, step.cc, moves)

moveToHighestEmpty(gm, cc) == moveLoop(gm, cc, <<>>)

(***************************************************************************)
(* The state of the program                                                 *)
(***************************************************************************)
VARIABLES
    gridManager,          \* Game.gridManager (width 0: null, no level loaded)
    characterController,  \* Game.characterController
    levelManager,         \* Game.levelManager
    isProcessing,         \* Game.isProcessing
    startModal,           \* whether the start modal is shown
    winModal,             \* whether the win modal is shown (set by onWin)
    loseModal,            \* whether the lose modal is shown (set by onLose)
    procs,                \* the handleSwap calls suspended at an await
    swaps,                \* handleSwap bodies that passed the guard so far
    loads,                \* loadCurrentLevel calls so far
    call                  \* the last direct call of a method: its name, the
                          \* objects it was made on and the value it returned

vars == <<gridManager, characterController, levelManager, isProcessing,
          startModal, winModal, loseModal, procs, swaps, loads, call>>

\* the mutable objects a handler works on, as one value
World ==
    [gm |-> gridManager, cc |-> characterController, lm |-> levelManager,
     isProcessing |-> isProcessing, winModal |-> winModal,
     loseModal |-> loseModal]

Becomes(w) ==
    /\ gridManager' = w.gm
    /\ characterController' = w.cc
    /\ levelManager' = w.lm
    /\ isProcessing' = w.isProcessing
    /\ winModal' = w.winModal
    /\ loseModal' = w.loseModal

NullGridManager ==
    [width |-> 0, height |-> 0, grid |-> [c \in {} |-> NullTile],
     tileTypes |-> <<>>, exitPosition |-> NoPos,
     characterPosition |-> NoPos, selectedTile |-> NoPos]

NullCharacterController == [character |-> NoPos, exitY |-> 0]

\* no method has been called directly
NoCall == [op |-> "none"]

(***************************************************************************)
(* LevelManager: a record [currentLevelIndex, movesRemaining, maxMoves,     *)
(* gameState]; the onWin and onLose callbacks show the modals               *)
(***************************************************************************)
setState(w, state) == [w EXCEPT !.lm.gameState = state]

triggerWin(w) == [w EXCEPT !.lm.gameState = WIN, !.winModal = TRUE]

triggerLose(w) == [w EXCEPT !.lm.gameState = LOSE, !.loseModal = TRUE]

isGameOver(lm) == lm.gameState = WIN \/ lm.gameState = LOSE

\* useMove with the test for a spent budget left out
useMoveUnguarded(w) ==
    IF w.lm.movesRemaining - 1 <= 0 /\ w.lm.gameState # WIN
    THEN [w EXCEPT !.lm.movesRemaining = @ - 1, !.lm.gameState = LOSE,
                   !.loseModal = TRUE]
    ELSE [w EXCEPT !.lm.movesRemaining = @ - 1]

\* whether this useMove call goes on to triggerLose
useMoveLoses(lm) ==
    lm.movesRemaining > 0 /\ lm.movesRemaining - 1 <= 0 /\ lm.gameState # WIN

\* the value useMove returns: whether a move was taken off the budget
useMoveResult(lm) == lm.movesRemaining > 0

useMove(w) ==
    IF w.lm.movesRemaining <= 0 THEN w
    ELSE LET w1 == [w EXCEPT !.lm.movesRemaining = @ - 1]
         IN  IF useMoveLoses(w.lm) THEN triggerLose(w1) ELSE w1

\* level.maxMoves || 20
levelMaxMoves(level) == IF level.maxMoves = 0 THEN 20 ELSE level.maxMoves

\* startLevel(index) for an index getLevel knows (0-based)
startLevel(lm, index) ==
    [currentLevelIndex |-> index,
     maxMoves |-> levelMaxMoves(LEVELS[index + 1]),
     movesRemaining |-> levelMaxMoves(LEVELS[index + 1]),
     gameState |-> IDLE]

\* the movesUsed of the record triggerWin hands to onWin
movesUsed(lm) == lm.maxMoves - lm.movesRemaining

hasMoreLevels(lm) == lm.currentLevelIndex < Len(LEVELS) - 1

(***************************************************************************)
(* Game.handleSwap as a coroutine.  A suspended call is a record: pc is     *)
(* the await it is suspended at; x1, y1, x2, y2, clearedPositions and       *)
(* specialTiles are its local variables.  The other fields are history the  *)
(* code does not keep: instance is the number of the level load the call    *)
(* was made in, pre the grid and movesRemaining it found at entry (kept      *)
(* until the swap turns out productive), moveUsed the value useMove()        *)
(* returned to it, lostFired whether the call has raised onLose, and rounds  *)
(* the iterations of the cascade loop that found a match, and owed the      *)
(* cells in the area of effect of the special tiles the call has cleared     *)
(* that the call has not cleared so far, and written the values the call    *)
(* has assigned to gameState, in order, since it was called or last resumed. *)
(* Each operator below runs the code from one point to the next await and   *)
(* gives the outcome [w, p, done], or the set of outcomes, one per sequence  *)
(* of spawn draws.                                                           *)
(***************************************************************************)
NoPre == [grid |-> <<>>, movesRemaining |-> -1]

\* the call has assigned state to gameState
Wrote(p, state) == [p EXCEPT !.written = Append(@, state)]

Suspended(w, p, pc) == [w |-> w, p |-> [p EXCEPT !.pc = pc], done |-> FALSE]

\* the tail of handleSwap: setState(IDLE); isProcessing = false
finishSwap(w, p) ==
    [w |-> [setState(w, IDLE) EXCEPT !.isProcessing = FALSE],
     p |-> Wrote(p, IDLE), done |-> TRUE]

\* the win and lose checks after moveCharacter
checkWinLose(w, p) ==
    IF hasEscaped(w.cc) THEN finishSwap(triggerWin(w), Wrote(p, WIN))
    ELSE IF w.lm.movesRemaining <= 0
    THEN finishSwap(triggerLose(w), Wrote([p EXCEPT !.lostFired = TRUE], LOSE))
    ELSE finishSwap(w, p)

\* moveCharacter: awaits only if the character moved
moveCharacter(w, p) ==
    LET w1 == setState(w, CHARACTER_MOVING)
        p1 == Wrote(p, CHARACTER_MOVING)
        mv == moveToHighestEmpty(w1.gm, w1.cc)
        w2 == [w1 EXCEPT !.gm = mv.gm, !.cc = mv.cc]
    IN  IF Len(mv.movements) > 0
        THEN Suspended(w2, p1, "characterMove")
        ELSE checkWinLose(w2, p1)

\* clearedPositions.forEach(setEmpty)
RECURSIVE clearPositions(_, _, _)
clearPositions(gm, positions, i) ==
    IF i > Len(positions) THEN gm
    ELSE clearPositions(setEmpty(gm, positions[i].x, positions[i].y),
                        positions, i + 1)

\* specialTiles.forEach with the tag set on the tile the cell holds
RECURSIVE tagSpecialTiles(_, _, _)
tagSpecialTiles(gm, specials, i) ==
    IF i > Len(specials) THEN gm
    ELSE tagSpecialTiles(
             setTile(gm, specials[i].position.x, specials[i].position.y,
                     setSpecial([getTile(gm, specials[i].position.x,
                                         specials[i].position.y)
                                    EXCEPT !.type = specials[i].color],
                                specials[i].type)),
             specials, i + 1)

\* specialTiles.forEach: a new tile of the match's colour with the special tag
RECURSIVE createSpecialTiles(_, _, _)
createSpecialTiles(gm, specials, i) ==
    IF i > Len(specials) THEN gm
    ELSE createSpecialTiles(
             setTile(gm, specials[i].position.x, specials[i].position.y,
                     setSpecial(Tile(specials[i].color), specials[i].type)),
             specials, i + 1)

\* the cells of a list of positions
cellsOf(positions) == {<<positions[i].x, positions[i].y>> : i \in 1 .. Len(positions)}

\* the cells in the area of effect of the special tiles at the positions
areaOfCleared(gm, positions) ==
    UNION {cellsOf(getSpecialTileAffectedPositions(
                       gm, positions[i].x, positions[i].y,
                       getTile(gm, positions[i].x, positions[i].y).specialType)) :
              i \in 1 .. Len(positions)}

\* the head of one iteration of the while loop of processCascades, up to
\* the await of animateMatch (or, with no match left, on to moveCharacter)
cascadeRound(w, p) ==
    LET w1 == setState(w, MATCHING)
        p1 == Wrote(p, MATCHING)
        matches == findAllMatches(w1.gm)
        pm == processMatches(w1.gm, matches)
    IN  IF Len(matches) = 0 THEN moveCharacter(w1, p1)
        ELSE Suspended([w1 EXCEPT !.gm = pm.gm],
                       [p1 EXCEPT !.clearedPositions = pm.clearedPositions,
                                  !.specialTiles = pm.specialTiles,
                                  !.rounds = @ + 1,
                                  !.owed = (@ \cup areaOfCleared(w1.gm, pm.clearedPositions))
                                              \ cellsOf(pm.clearedPositions)],
                       "animateMatch")

\* after animateMatch: clear, place specials, gravity and spawn, then the
\* awaits of animateSpawn and of the cascade delay
afterAnimateMatch(w, p) ==
    LET gm1 == clearPositions(w.gm, p.clearedPositions, 1)
        gm2 == createSpecialTiles(gm1, p.specialTiles, 1)
        w1 == setState([w EXCEPT !.gm = gm2], FALLING)
    IN  {Suspended([w1 EXCEPT !.gm = gm3], Wrote(p, FALLING), "cascadeDelay") :
            gm3 \in processGravity(gm2)}

\* after animateSwap: the tentative swap and the test that decides the move
afterAnimateSwap(w, p) ==
    LET w1 == [w EXCEPT !.gm = swap(w.gm, p.x1, p.y1, p.x2, p.y2)]
        hasMatch == checkSwapForMatches(w1.gm, p.x1, p.y1, p.x2, p.y2)
    IN  IF hasMatch
        THEN cascadeRound(useMove(w1),
                          [p EXCEPT !.lostFired = useMoveLoses(w1.lm),
                                    !.moveUsed = useMoveResult(w1.lm),
                                    !.pre = NoPre,
                                    !.written = IF useMoveLoses(w1.lm)
                                                THEN Append(@, LOSE) ELSE @])
        ELSE Suspended(w1, p, "animateInvalidSwap")

\* the end of an unproductive swap with the character advance run as well
advanceAfterInvalidSwap(w, p) == moveCharacter(w, p)

\* the end of an unproductive swap with the swap back left out
endWithoutSwapBack(w, p) == finishSwap(w, p)

\* after animateInvalidSwap: swap back
afterAnimateInvalidSwap(w, p) ==
    finishSwap([w EXCEPT !.gm = swap(w.gm, p.x1, p.y1, p.x2, p.y2)], p)

\* the code a suspended call runs when its await resolves
resume(w, p) ==
    LET q == [p EXCEPT !.written = <<>>]
    IN  CASE p.pc = "animateSwap" -> {afterAnimateSwap(w, q)}
          [] p.pc = "animateInvalidSwap" -> {afterAnimateInvalidSwap(w, q)}
          [] p.pc = "animateMatch" -> afterAnimateMatch(w, q)
          [] p.pc = "cascadeDelay" -> {cascadeRound(w, q)}
          [] p.pc = "characterMove" -> {checkWinLose(w, q)}

\* handleSwap from its entry to its first await; the guard is the caller's
startSwap(w, x1, y1, x2, y2, instance) ==
    Suspended([setState(w, SWAPPING) EXCEPT !.isProcessing = TRUE],
              [pc |-> "entry", x1 |-> x1, y1 |-> y1, x2 |-> x2, y2 |-> y2,
               clearedPositions |-> <<>>, specialTiles |-> <<>>,
               instance |-> instance,
               pre |-> [grid |-> w.gm.grid,
                        movesRemaining |-> w.lm.movesRemaining],
               moveUsed |-> FALSE, lostFired |-> FALSE, rounds |-> 0,
               owed |-> {}, written |-> <<SWAPPING>>],
              "animateSwap")

handleSwapGuard(w) == ~(w.isProcessing \/ isGameOver(w.lm))

RemoveAt(q, i) == [k \in 1 .. Len(q) - 1 |-> IF k < i THEN q[k] ELSE q[k + 1]]

(***************************************************************************)
(* GridManager: hints                                                       *)
(***************************************************************************)
\* the number of consecutive tiles from (x, y), stepping by (dx, dy), that
\* have the given type (GridManager's own check does not ask isMatchable)
RECURSIVE countSameType(_, _, _, _, _, _)
countSameType(gm, x, y, dx, dy, type) ==
    IF ~isValidPosition(gm, x, y) THEN 0
    ELSE IF getTile(gm, x, y).type = type
    THEN 1 + countSameType(gm, x + dx, y + dy, dx, dy, type)
    ELSE 0

\* GridManager.checkForMatchAt
gridCheckForMatchAt(gm, x, y) ==
    LET tile == getTile(gm, x, y)
        hCount == 1 + countSameType(gm, x - 1, y, -1, 0, tile.type)
                    + countSameType(gm, x + 1, y, 1, 0, tile.type)
        vCount == 1 + countSameType(gm, x, y - 1, 0, -1, tile.type)
                    + countSameType(gm, x, y + 1, 0, 1, tile.type)
    IN  IF tile.type = NULL \/ ~isMatchable(tile) THEN FALSE
        ELSE IF hCount >= 3 THEN TRUE
        ELSE vCount >= 3

\* swap, test both cells, swap back: [gm, hasMatch]
probeSwap(gm, x1, y1, x2, y2) ==
    LET g1 == swap(gm, x1, y1, x2, y2)
        hasMatch == gridCheckForMatchAt(g1, x1, y1) \/ gridCheckForMatchAt(g1, x2, y2)
    IN  [gm |-> swap(g1, x1, y1, x2, y2), hasMatch |-> hasMatch]

NoHint == [x1 |-> -1, y1 |-> -1, x2 |-> -1, y2 |-> -1]

\* the scan of findHint from cell k (row-major): [gm, hint]
RECURSIVE findHintFrom(_, _)
findHintFrom(gm, k) ==
    IF k >= gm.width * gm.height THEN [gm |-> gm, hint |-> NoHint]
    ELSE LET x == k % gm.width
             y == k \div gm.width
             tile == getTile(gm, x, y)
             tryRight == x < gm.width - 1 /\ isMatchable(getTile(gm, x + 1, y))
             right == probeSwap(gm, x, y, x + 1, y)
             gmR == IF tryRight THEN right.gm ELSE gm
             tryDown == y < gm.height - 1 /\ isMatchable(getTile(gmR, x, y + 1))
             down == probeSwap(gmR, x, y, x, y + 1)
             gmD == IF tryDown THEN down.gm ELSE gmR
         IN  IF ~isMatchable(tile) THEN findHintFrom(gm, k + 1)
             ELSE IF tryRight /\ right.hasMatch
             THEN [gm |-> gmR, hint |-> [x1 |-> x, y1 |-> y, x2 |-> x + 1, y2 |-> y]]
             ELSE IF tryDown /\ down.hasMatch
             THEN [gm |-> gmD, hint |-> [x1 |-> x, y1 |-> y, x2 |-> x, y2 |-> y + 1]]
             ELSE findHintFrom(gmD, k + 1)

findHint(gm) == findHintFrom(gm, 0)

\* hasPossibleMoves makes the scan of findHint and returns whether it
\* came upon a pair
hasPossibleMoves(gm) == findHint(gm).hint # NoHint

\* GridManager.handleTileSelect(x, y): [gm, swap], swap being whether the
\* swap callback is called with the selected cell and (x, y)
handleTileSelect(gm, x, y) ==
    LET tile == gm.grid[<<x, y>>]
        sel == gm.selectedTile
        cleared == [gm EXCEPT !.selectedTile = NoPos]
    IN  IF ~canSwap(tile) THEN [gm |-> cleared, swap |-> FALSE]
        ELSE IF sel = NoPos
        THEN [gm |-> [gm EXCEPT !.selectedTile = Pos(x, y)], swap |-> FALSE]
        ELSE [gm |-> cleared, swap |-> areAdjacent(sel.x, sel.y, x, y)]

(***************************************************************************)
(* Game: the handlers                                                       *)
(***************************************************************************)
\* loadCurrentLevel: fresh managers for levelManager.currentLevel
loadCurrentLevel(w, seed) ==
    LET level == LEVELS[w.lm.currentLevelIndex + 1]
        start == level.characterStart
        gm0 == initialize(level, seed)
    IN  [w EXCEPT !.gm = updateCharacterPosition(gm0, start.x, start.y,
                                                 start.x, start.y),
                  !.cc = [character |-> start, exitY |-> level.exitPosition.y],
                  !.isProcessing = FALSE]

Init ==
    /\ gridManager = NullGridManager
    /\ characterController = NullCharacterController
    /\ levelManager = [currentLevelIndex |-> 0, movesRemaining |-> 0,
                       maxMoves |-> 0, gameState |-> IDLE]
    /\ isProcessing = FALSE
    /\ startModal = TRUE
    /\ winModal = FALSE
    /\ loseModal = FALSE
    /\ procs = <<>>
    /\ swaps = 0
    /\ loads = 0
    /\ call = NoCall

\* the start button: hide the start modal, startGame
StartGame ==
    /\ startModal
    /\ loads < MaxLoads
    /\ \E seed \in 0 .. MaxSeed :
          Becomes(loadCurrentLevel([World EXCEPT !.lm = startLevel(@, 0)], seed))
    /\ startModal' = FALSE
    /\ loads' = loads + 1
    /\ UNCHANGED <<procs, swaps, call>>

\* the restart button: restartLevel
RestartLevel ==
    /\ ~startModal
    /\ loads < MaxLoads
    /\ \E seed \in 0 .. MaxSeed :
          Becomes(loadCurrentLevel(
              [World EXCEPT !.lm = startLevel(@, @.currentLevelIndex)], seed))
    /\ loads' = loads + 1
    /\ UNCHANGED <<startModal, procs, swaps, call>>

\* the retry button of the lose modal: hide the modal, restartLevel
Retry ==
    /\ loseModal
    /\ loads < MaxLoads
    /\ \E seed \in 0 .. MaxSeed :
          Becomes(loadCurrentLevel(
              [World EXCEPT !.lm = startLevel(@, @.currentLevelIndex),
                            !.loseModal = FALSE], seed))
    /\ loads' = loads + 1
    /\ UNCHANGED <<startModal, procs, swaps, call>>

\* the next-level button of the win modal
NextLevel ==
    /\ winModal
    /\ loads < MaxLoads
    /\ \E seed \in 0 .. MaxSeed :
          Becomes(loadCurrentLevel(
              [World EXCEPT !.lm = IF hasMoreLevels(@)
                                   THEN startLevel(@, @.currentLevelIndex + 1)
                                   ELSE startLevel(@, 0),
                            !.winModal = FALSE], seed))
    /\ loads' = loads + 1
    /\ UNCHANGED <<startModal, procs, swaps, call>>

\* whether handleTileSelect(x, y) goes on to call handleSwap past its guard
selectStartsSwap(w, x, y) ==
    LET sel == w.gm.selectedTile
    IN  /\ canSwap(w.gm.grid[<<x, y>>])
        /\ sel # NoPos
        /\ areAdjacent(sel.x, sel.y, x, y)
        /\ handleSwapGuard(w)

\* a click or tap on the tile element of cell (x, y): handleTileSelect
TileSelect(x, y) ==
    LET w == World
        sel == w.gm.selectedTile
        cleared == [w EXCEPT !.gm.selectedTile = NoPos]
        started == startSwap(cleared, sel.x, sel.y, x, y, loads)
    IN  /\ <<x, y>> \in DOMAIN gridManager.grid
        /\ IF selectStartsSwap(w, x, y)
           THEN /\ swaps < MaxSwaps
                /\ Becomes(started.w)
                /\ procs' = Append(procs, started.p)
                /\ swaps' = swaps + 1
           ELSE /\ Becomes(IF canSwap(w.gm.grid[<<x, y>>]) /\ sel = NoPos
                           THEN [w EXCEPT !.gm.selectedTile = Pos(x, y)]
                           ELSE cleared)
                /\ UNCHANGED <<procs, swaps, call>>
        /\ UNCHANGED <<startModal, loads, call>>

\* the hint button: showHint
ShowHint ==
    /\ ~startModal
    /\ gridManager' = IF isProcessing THEN gridManager
                      ELSE findHint(gridManager).gm
    /\ UNCHANGED <<characterController, levelManager, isProcessing, startModal,
                   winModal, loseModal, procs, swaps, loads, call>>

\* the await of the i-th suspended handleSwap resolves
Resume(i) ==
    /\ i \in 1 .. Len(procs)
    /\ \E o \in resume(World, procs[i]) :
          /\ o.p.rounds <= MaxRounds
          /\ Becomes(o.w)
          /\ procs' = IF o.done THEN RemoveAt(procs, i)
                      ELSE [procs EXCEPT ![i] = o.p]
    /\ UNCHANGED <<startModal, swaps, loads, call>>

Next ==
    \/ StartGame
    \/ RestartLevel
    \/ Retry
    \/ NextLevel
    \/ \E x \in 0 .. 2, y \in 0 .. 2 : TileSelect(x, y)
    \/ ShowHint
    \/ \E i \in 1 .. MaxSwaps : Resume(i)

Spec == Init /\ [][Next]_vars

(***************************************************************************)
(* CharacterController called directly, on a board set up cell by cell      *)
(* (GridManager.setTile, setEmpty) rather than by play: the character's     *)
(* column of a two-column board.  The cells above the character are empty,  *)
(* a colour tile or a stone; the exit marker is in the character's column   *)
(* or in the other one.                                                     *)
(***************************************************************************)
\* rows of the board
ColumnHeight == 6

ColumnBoard(cy, exitY, inColumn, above) ==
    LET exitX == IF inColumn THEN 0 ELSE 1
        cell(c) ==
            IF c[1] = exitX /\ c[2] = exitY THEN Tile(EXIT)
            ELSE IF c[1] = 0 /\ c[2] = cy THEN Tile(EMPTY)
            ELSE IF c[1] = 0 /\ c[2] < cy THEN Tile(above[c[2]])
            ELSE Tile("red")
    IN  [gm |-> [width |-> 2, height |-> ColumnHeight,
                 grid |-> [c \in Cells(2, ColumnHeight) |-> cell(c)],
                 tileTypes |-> <<"red", "blue", "green">>,
                 exitPosition |-> Pos(exitX, exitY),
                 characterPosition |-> Pos(0, cy),
                 selectedTile |-> NoPos],
         cc |-> [character |-> Pos(0, cy), exitY |-> exitY]]

CharacterInit ==
    /\ \E cy \in 0 .. ColumnHeight - 1, exitY \in 0 .. ColumnHeight - 1,
          inColumn \in BOOLEAN :
          \E above \in [0 .. cy - 1 -> {EMPTY, "red", STONE}] :
             /\ gridManager = ColumnBoard(cy, exitY, inColumn, above).gm
             /\ characterController = ColumnBoard(cy, exitY, inColumn, above).cc
    /\ levelManager = [currentLevelIndex |-> 0, movesRemaining |-> 0,
                       maxMoves |-> 0, gameState |-> IDLE]
    /\ isProcessing = FALSE
    /\ startModal = FALSE
    /\ winModal = FALSE
    /\ loseModal = FALSE
    /\ procs = <<>>
    /\ swaps = 0
    /\ loads = 0
    /\ call = NoCall

\* characterController.moveToHighestEmpty()
CallMoveToHighestEmpty ==
    LET mv == moveToHighestEmpty(gridManager, characterController)
    IN  /\ call = NoCall
        /\ gridManager' = mv.gm
        /\ characterController' = mv.cc
        /\ call' = [op |-> "moveToHighestEmpty", gm |-> gridManager,
                    cc |-> characterController, ret |-> mv.movements]
        /\ UNCHANGED <<levelManager, isProcessing, startModal, winModal,
                       loseModal, procs, swaps, loads>>

CharacterNext == CallMoveToHighestEmpty

CharacterSpec == CharacterInit /\ [][CharacterNext]_vars

(***************************************************************************)
(* MatchResolver and GridManager called directly, on a board set up cell    *)
(* by cell.  The board has a line of LineLength cells (row 0, or column 0   *)
(* of the transposed board) of red and blue tiles, one of which may carry   *)
(* ice layers or the lock, and a stem of two equal tiles under the third    *)
(* cell of the line; the other cells alternate green and yellow, so every   *)
(* run lies on the line or on the stem.                                     *)
(***************************************************************************)
\* cells of the line
LineLength == 6
\* ice layers a tile of the board may carry
MaxIce == 2
\* processMatches calls made one after the other on one board
MaxCalls == 2

LineBoard(colours, stem, d, ice, locked, transposed) ==
    LET plain(i, j) ==
            IF j = 0 THEN Tile(colours[i])
            ELSE IF i = 2 THEN Tile(stem)
            ELSE Tile(IF (i + j) % 2 = 0 THEN "green" ELSE "yellow")
        iced(i, j) == IF ice > 0 THEN addIce(plain(i, j), ice) ELSE plain(i, j)
        tile(i, j) == IF j = 0 /\ i = d
                      THEN IF locked THEN lock(iced(i, j)) ELSE iced(i, j)
                      ELSE plain(i, j)
        w == IF transposed THEN 3 ELSE LineLength
        h == IF transposed THEN LineLength ELSE 3
    IN  [width |-> w, height |-> h,
         grid |-> [c \in Cells(w, h) |->
                      IF transposed THEN tile(c[2], c[1]) ELSE tile(c[1], c[2])],
         tileTypes |-> <<"red", "blue", "green", "yellow">>,
         exitPosition |-> NoPos,
         characterPosition |-> NoPos,
         selectedTile |-> NoPos]

ResolverInit ==
    /\ \E colours \in [0 .. LineLength - 1 -> {"red", "blue"}],
          stem \in {"red", "blue"}, d \in 0 .. LineLength - 1,
          ice \in 0 .. MaxIce, locked \in BOOLEAN, transposed \in BOOLEAN :
          /\ ~(locked /\ ice > 0)
          /\ gridManager = LineBoard(colours, stem, d, ice, locked, transposed)
    /\ characterController = NullCharacterController
    /\ levelManager = [currentLevelIndex |-> 0, movesRemaining |-> 0,
                       maxMoves |-> 0, gameState |-> IDLE]
    /\ isProcessing = FALSE
    /\ startModal = FALSE
    /\ winModal = FALSE
    /\ loseModal = FALSE
    /\ procs = <<>>
    /\ swaps = 0
    /\ loads = 0
    /\ call = NoCall

\* a call that leaves everything but the grid manager and the record of the
\* call as it is
Called(op, args, gm, ret) ==
    /\ gridManager' = gm
    /\ call' = [op |-> op, args |-> args, gm |-> gridManager, ret |-> ret,
                nth |-> IF call = NoCall THEN 1 ELSE call.nth + 1,
                prev |-> IF call = NoCall THEN NoCall
                         ELSE [gm |-> call.gm, ret |-> call.ret]]
    /\ UNCHANGED <<characterController, levelManager, isProcessing, startModal,
                   winModal, loseModal, procs, swaps, loads>>

\* the cells of the first row and of the first column
EdgeCells(gm) == {c \in DOMAIN gm.grid : c[1] = 0 \/ c[2] = 0}

\* matchResolver.findAllMatches()
CallFindAllMatches ==
    /\ call = NoCall
    /\ Called("findAllMatches", <<>>, gridManager, findAllMatches(gridManager))

\* matchResolver.checkForMatchAt(x, y)
CallCheckForMatchAt ==
    /\ call = NoCall
    /\ \E c \in EdgeCells(gridManager) :
          Called("checkForMatchAt", c, gridManager,
                 checkForMatchAt(gridManager, c[1], c[2]))

\* matchResolver.getSpecialTileForMatch(match) for a record of findAllMatches
CallGetSpecialTileForMatch ==
    /\ call = NoCall
    /\ \E k \in 1 .. Len(findAllMatches(gridManager)) :
          Called("getSpecialTileForMatch", findAllMatches(gridManager)[k],
                 gridManager,
                 getSpecialTileForMatch(findAllMatches(gridManager)[k]))

\* matchResolver.processMatches(matchResolver.findAllMatches()), on a new
\* board or after an earlier such call
CallProcessMatches ==
    LET matches == findAllMatches(gridManager)
        pm == processMatches(gridManager, matches)
    IN  /\ \/ call = NoCall
           \/ call.op = "processMatches" /\ call.nth < MaxCalls
        /\ Called("processMatches", matches, pm.gm,
                  [clearedPositions |-> pm.clearedPositions,
                   specialTiles |-> pm.specialTiles])

\* a click on the tile element of cell (x, y), no swap callback being set
CallHandleTileSelect ==
    /\ call = NoCall
    /\ \E c \in EdgeCells(gridManager) :
          Called("handleTileSelect", c,
                 handleTileSelect(gridManager, c[1], c[2]).gm,
                 handleTileSelect(gridManager, c[1], c[2]).swap)

\* gridManager.findHint()
CallFindHint ==
    /\ call = NoCall
    /\ Called("findHint", <<>>, findHint(gridManager).gm,
              findHint(gridManager).hint)

\* gridManager.hasPossibleMoves()
CallHasPossibleMoves ==
    /\ call = NoCall
    /\ Called("hasPossibleMoves", <<>>, findHint(gridManager).gm,
              hasPossibleMoves(gridManager))

ResolverNext ==
    \/ CallFindAllMatches
    \/ CallCheckForMatchAt
    \/ CallGetSpecialTileForMatch
    \/ CallProcessMatches
    \/ CallHandleTileSelect
    \/ CallFindHint
    \/ CallHasPossibleMoves

ResolverSpec == ResolverInit /\ [][ResolverNext]_vars

(***************************************************************************)
(* A game in progress on a level of 5 x 3 cells in which an earlier move    *)
(* has left a special tile: the board is at rest,                           *)
(*                                                                          *)
(*        red    red    blue   green  exit                                  *)
(*        yellow green  red    yellow blue                                  *)
(*        green  yellow green  blue   (character)                           *)
(*                                                                          *)
(* and one of the red tiles carries a special tag.  Exchanging (2,0) and    *)
(* (2,1) makes the run red red red in row 0.                                *)
(***************************************************************************)
SpecialBoard(cell, specialType) ==
    LET rows == << <<"red", "red", "blue", "green", EXIT>>,
                   <<"yellow", "green", "red", "yellow", "blue">>,
                   <<"green", "yellow", "green", "blue", EMPTY>> >>
    IN  [width |-> 5, height |-> 3,
         grid |-> [c \in Cells(5, 3) |->
                      IF c = cell
                      THEN setSpecial(Tile(rows[c[2] + 1][c[1] + 1]), specialType)
                      ELSE Tile(rows[c[2] + 1][c[1] + 1])],
         tileTypes |-> <<"red", "blue", "green", "yellow">>,
         exitPosition |-> Pos(4, 0),
         characterPosition |-> Pos(4, 2),
         selectedTile |-> NoPos]

SpecialInit ==
    /\ \E cell \in {<<0, 0>>, <<1, 0>>, <<2, 1>>},
          specialType \in {LINE_H, LINE_V, BOMB} :
          gridManager = SpecialBoard(cell, specialType)
    /\ characterController = [character |-> Pos(4, 2), exitY |-> 0]
    /\ levelManager = [currentLevelIndex |-> 0, movesRemaining |-> 2,
                       maxMoves |-> 3, gameState |-> IDLE]
    /\ isProcessing = FALSE
    /\ startModal = FALSE
    /\ winModal = FALSE
    /\ loseModal = FALSE
    /\ procs = <<>>
    /\ swaps = MaxSwaps - 1
    /\ loads = 1
    /\ call = NoCall

\* the clicks are those on the cells of column 2
SpecialNext ==
    \/ \E y \in 0 .. 2 : TileSelect(2, y)
    \/ \E i \in 1 .. MaxSwaps : Resume(i)

SpecialSpec == SpecialInit /\ [][SpecialNext]_vars

(***************************************************************************)
(* GridManager.initialize called on a new grid manager of 3 x 4 cells, for  *)
(* a level with a palette of three colours, the exit in the top row, the    *)
(* character's start in the bottom row and one blocker of kind stone, ice   *)
(* or locked, under every sequence of draws of the fill.                    *)
(***************************************************************************)
\* the level configurations initialize is called with
LevelConfigs ==
    {[gridWidth |-> 3, gridHeight |-> 4, maxMoves |-> 1,
      characterStart |-> Pos(cx, 3), exitPosition |-> Pos(ex, 0),
      blockers |-> << [type |-> kind, x |-> b[1], y |-> b[2],
                       iceLayer |-> IF kind = "ice" THEN 2 ELSE 0,
                       locked |-> kind = "locked"] >>,
      tileTypes |-> <<"red", "blue", "green">>] :
        cx \in {0, 1}, ex \in {0, 1}, kind \in {STONE, "ice", "locked"},
        b \in {<<0, 1>>, <<1, 2>>}}

InitializeInit ==
    /\ gridManager = NullGridManager
    /\ characterController = NullCharacterController
    /\ levelManager = [currentLevelIndex |-> 0, movesRemaining |-> 0,
                       maxMoves |-> 0, gameState |-> IDLE]
    /\ isProcessing = FALSE
    /\ startModal = FALSE
    /\ winModal = FALSE
    /\ loseModal = FALSE
    /\ procs = <<>>
    /\ swaps = 0
    /\ loads = 0
    /\ call = NoCall

\* new GridManager(3, 4).initialize(level)
CallInitialize ==
    /\ call = NoCall
    /\ \E level \in LevelConfigs :
          \E gms \in {initializeAny(level)} :
             \E i \in 1 .. Len(gms) :
                Called("initialize", level, gms[i], TRUE)

InitializeNext == CallInitialize

InitializeSpec == InitializeInit /\ [][InitializeNext]_vars

(***************************************************************************)
(* Vocabulary of the claims                                                 *)
(***************************************************************************)
\* the level the level manager is on
CurrentLevel == LEVELS[levelManager.currentLevelIndex + 1]

\* a level is loaded and no handleSwap call is suspended
AtRest == ~startModal /\ procs = <<>>

\* the call is in its cascade loop or its character advance
Pending(p) == p.pc \in {"animateMatch", "cascadeDelay", "characterMove"}

\* this step is the i-th suspended call running on from its await
Resumed(i) ==
    /\ i \in 1 .. Len(procs)
    /\ \/ procs' = RemoveAt(procs, i)
       \/ /\ Len(procs') = Len(procs)
          /\ procs'[i] # procs[i]
          /\ \A j \in 1 .. Len(procs) : j # i => procs'[j] = procs[j]

\* the exit lies two or more rows above the character's start, same column
FarExit(level) ==
    /\ level.exitPosition.x = level.characterStart.x
    /\ level.exitPosition.y <= level.characterStart.y - 2

(***************************************************************************)
(* C1.  Move conservation: when a swap that yields no run at either cell    *)
(* has been handled within one level instance, the grid and movesRemaining  *)
(* are what the call found at its entry and the state is Idle.              *)
(***************************************************************************)
C1_MoveConservation ==
    [][\A i \in 1 .. Len(procs) :
          (/\ procs[i].pc = "animateInvalidSwap"
           /\ procs' = RemoveAt(procs, i)
           /\ procs[i].instance = loads)
          => /\ gridManager'.grid = procs[i].pre.grid
             /\ levelManager'.movesRemaining = procs[i].pre.movesRemaining
             /\ levelManager'.gameState = IDLE]_vars

(***************************************************************************)
(* C2.  Every call whose swap was accepted as productive, and so runs a     *)
(* cascade, has taken one move off movesRemaining.                          *)
(***************************************************************************)
C2_ProductiveSwapUsesMove ==
    \A i \in 1 .. Len(procs) : Pending(procs[i]) => procs[i].moveUsed

(***************************************************************************)
(* C3.  Win and Lose are terminal: at rest, a level whose character has     *)
(* escaped is in state Win, and one with no escape and no move left is in   *)
(* state Lose (so isGameOver holds and handleSwap's guard refuses swaps).   *)
(***************************************************************************)
C3_WinLoseTerminal ==
    AtRest =>
        /\ hasEscaped(characterController) => levelManager.gameState = WIN
        /\ (~hasEscaped(characterController) /\ levelManager.movesRemaining <= 0)
              => levelManager.gameState = LOSE

(***************************************************************************)
(* C4.  Lose is declared for a move only after its cascade and character    *)
(* advance: no call that is still in its cascade loop or character advance  *)
(* has raised level-lost, and level-won and level-lost are never both shown.*)
(***************************************************************************)
C4_LoseOnlyAfterResolution ==
    /\ \A i \in 1 .. Len(procs) : Pending(procs[i]) => ~procs[i].lostFired
    /\ ~(winModal /\ loseModal)

(***************************************************************************)
(* C5.  Exactly one move is in flight: at most one handleSwap body is past  *)
(* its guard.                                                               *)
(***************************************************************************)
C5_OneMoveInFlight == Len(procs) <= 1

(***************************************************************************)
(* C6.  Level isolation: a call made in an earlier level instance writes    *)
(* nothing into the grid, the character or the level manager when it runs   *)
(* on after a restart or a level change.                                    *)
(***************************************************************************)
C6_LevelIsolation ==
    [][\A i \in 1 .. Len(procs) :
          (Resumed(i) /\ procs[i].instance # loads)
          => /\ gridManager' = gridManager
             /\ characterController' = characterController
             /\ levelManager' = levelManager]_vars

(***************************************************************************)
(* C7.  Cascade termination: no call, running in the level instance it was *)
(* made in, runs more than width * height rounds of its cascade loop,       *)
(* whatever colours are spawned.                                            *)
(***************************************************************************)
C7_CascadeWithinBound ==
    \A i \in 1 .. Len(procs) :
        procs[i].instance = loads
            => procs[i].rounds <= gridManager.width * gridManager.height

(***************************************************************************)
(* C8.  Stable grid at rest: with no move in flight, in a level with a      *)
(* palette of at least 3 colours, findAllMatches finds nothing.             *)
(***************************************************************************)
C8_StableGridAtRest ==
    (AtRest /\ Len(gridManager.tileTypes) >= 3)
        => findAllMatches(gridManager) = <<>>

(***************************************************************************)
(* C9.  Clearing tiles lets the character advance.  PlayClosure is every    *)
(* point a game can get to from a world at rest by productive swaps, one    *)
(* move at a time, under every sequence of spawn draws.                     *)
(***************************************************************************)
\* the history fields do not matter to what a call does next
Forget(o) ==
    [o EXCEPT !.p.rounds = 0, !.p.instance = 0, !.p.pre = NoPre,
              !.p.moveUsed = FALSE, !.p.lostFired = FALSE, !.p.owed = {},
              !.p.written = <<>>]

\* the ordered pairs of cells handleTileSelect passes on to handleSwap
SwapPairs(gm) ==
    {pair \in (DOMAIN gm.grid) \X (DOMAIN gm.grid) :
        /\ canSwap(gm.grid[pair[1]]) /\ canSwap(gm.grid[pair[2]])
        /\ areAdjacent(pair[1][1], pair[1][2], pair[2][1], pair[2][2])}

\* the productive swaps of a world at rest, each run to its first await
ProductiveSwaps(w) ==
    LET begun(pair) == startSwap(w, pair[1][1], pair[1][2],
                                 pair[2][1], pair[2][2], 0)
        tried == {afterAnimateSwap(begun(pair).w, begun(pair).p) :
                     pair \in SwapPairs(w.gm)}
    IN  IF handleSwapGuard(w)
        THEN {o \in tried : o.p.pc # "animateInvalidSwap"}
        ELSE {}

PlaySteps(o) ==
    {Forget(n) : n \in IF o.done THEN ProductiveSwaps(o.w) ELSE resume(o.w, o.p)}

RECURSIVE PlayClosure(_, _)
PlayClosure(seen, frontier) ==
    IF frontier = {} THEN seen
    ELSE LET next == UNION {PlaySteps(o) : o \in frontier} \ seen
         IN  PlayClosure(seen \cup next, next)

\* C9: from a level at rest whose exit lies two or more rows above the
\* character's start, with the character at its start, some sequence of
\* productive swaps and spawn draws takes the character at least one row up,
\* and some sequence lets it escape
C9_CharacterCanAdvance ==
    LET here == Forget(finishSwap(World, startSwap(World, 0, 0, 0, 0, 0).p))
        reach == PlayClosure({here}, {here})
    IN  (/\ AtRest
         /\ FarExit(CurrentLevel)
         /\ characterController.character = CurrentLevel.characterStart)
        => /\ \E o \in reach :
                 o.w.cc.character.y < CurrentLevel.characterStart.y
           /\ \E o \in reach : hasEscaped(o.w.cc)

\* what the code does instead: in such a level the character never leaves
\* its start cell
CharacterStaysAtStart ==
    (~startModal /\ FarExit(CurrentLevel))
        => characterController.character = CurrentLevel.characterStart

(***************************************************************************)
(* C10.  Character advancement.                                             *)
(***************************************************************************)
\* the cell is empty or the exit marker
Passable(gm, x, y) ==
    isValidPosition(gm, x, y) /\ (isEmpty(getTile(gm, x, y)) \/ isExit(getTile(gm, x, y)))

\* the contiguous passable cells above (x, y), counted until the row
\* reaches exitRow
RECURSIVE StepsUntilExitRow(_, _, _, _)
StepsUntilExitRow(gm, x, y, exitY) ==
    IF y > exitY /\ Passable(gm, x, y - 1)
    THEN 1 + StepsUntilExitRow(gm, x, y - 1, exitY)
    ELSE 0

\* the same count with the first step taken whatever the character's row
StepsFirstUntested(gm, x, y, exitY) ==
    IF Passable(gm, x, y - 1)
    THEN 1 + StepsUntilExitRow(gm, x, y - 1, exitY)
    ELSE 0

\* what a call of moveToHighestEmpty that makes k steps leaves and returns
AdvancedBy(k) ==
    LET x == call.cc.character.x
        y == call.cc.character.y
    IN  /\ characterController.character = Pos(x, y - k)
        /\ gridManager.characterPosition = Pos(x, y - k)
        /\ call.ret = [i \in 1 .. k |->
                          [fromY |-> y - i + 1, toY |-> y - i, x |-> x]]
        /\ k = 0 => (gridManager = call.gm /\ characterController = call.cc)

\* C10 as stated: moveToHighestEmpty moves the character up exactly k rows and
\* returns k single-step records, k being the contiguous empty-or-exit cells
\* above it counted until its row reaches exitRow; with k = 0 nothing changes
C10_AdvanceAsStated ==
    call.op = "moveToHighestEmpty"
        => AdvancedBy(StepsUntilExitRow(call.gm, call.cc.character.x,
                                        call.cc.character.y, call.cc.exitY))

\* C10 amended: the same with the first step taken without the test of the
\* row against exitRow, so a character already at or above exitRow still
\* moves up one row into an empty or exit cell
C10_AdvanceFirstStepUntested ==
    call.op = "moveToHighestEmpty"
        => AdvancedBy(StepsFirstUntested(call.gm, call.cc.character.x,
                                         call.cc.character.y, call.cc.exitY))

\* C10's example: from row 5 with rows 4 .. 1 empty and the exit at row 0,
\* five records, the character at row 0 and escaped
C10_FiveStepsToExit ==
    /\ call.op = "moveToHighestEmpty"
    /\ call.cc.character.y = 5
    /\ call.gm.exitPosition = Pos(call.cc.character.x, 0)
    /\ \A y \in 1 .. 4 : isEmpty(getTile(call.gm, call.cc.character.x, y))
    /\ Len(call.ret) = 5
    /\ characterController.character.y = 0
    /\ hasEscaped(characterController)

(***************************************************************************)
(* C11.  Fixed-cell inviolability: in every state of a loaded level the     *)
(* exit cell holds the exit tile and every cell the level configuration     *)
(* put a stone blocker in still holds a stone blocker.                      *)
(***************************************************************************)
\* the cells the level's blocker list puts a stone in
StoneCells(level) ==
    {<<level.blockers[i].x, level.blockers[i].y>> :
        i \in {j \in 1 .. Len(level.blockers) : level.blockers[j].type = STONE}}

C11_FixedCellsKept ==
    ~startModal =>
        /\ isExit(getTile(gridManager, CurrentLevel.exitPosition.x,
                          CurrentLevel.exitPosition.y))
        /\ \A c \in StoneCells(CurrentLevel) : isBlocker(gridManager.grid[c])

(***************************************************************************)
(* C12.  Which tiles are never matchable.  NeverMatchable(Bad) says of the  *)
(* last direct call: findAllMatches returned no record with a cell whose    *)
(* tile is Bad; checkForMatchAt gave what it gives on the board with every  *)
(* Bad tile replaced by a stone, so it counted none of them in a run; and   *)
(* a click on a Bad tile neither selected it nor asked for a swap.          *)
(***************************************************************************)
\* the cells of the records of a list of matches
MatchCells(matches) ==
    UNION {{<<matches[k].tiles[i].x, matches[k].tiles[i].y>> :
               i \in 1 .. Len(matches[k].tiles)} : k \in 1 .. Len(matches)}

Without(gm, Bad(_)) ==
    [gm EXCEPT !.grid = [c \in DOMAIN @ |->
                            IF Bad(@[c]) THEN Tile(STONE) ELSE @[c]]]

NeverMatchable(Bad(_)) ==
    /\ call.op = "findAllMatches"
          => \A c \in MatchCells(call.ret) : ~Bad(call.gm.grid[c])
    /\ call.op = "checkForMatchAt"
          => call.ret = checkForMatchAt(Without(call.gm, Bad),
                                        call.args[1], call.args[2])
    /\ (call.op = "handleTileSelect" /\ Bad(call.gm.grid[call.args]))
          => /\ gridManager.selectedTile = NoPos
             /\ ~call.ret

\* the board with the ice taken off every tile
Melted(gm) ==
    [gm EXCEPT !.grid = [c \in DOMAIN @ |-> [@[c] EXCEPT !.iceLayer = 0]]]

\* C12 as stated: a tile that is locked or has iceLayers > 0 is never
\* matchable: in no match record, never counted in a run, not selectable
C12_LockedOrIcedNeverMatchable ==
    NeverMatchable(LAMBDA t : t.isLocked \/ t.iceLayer > 0)

\* C12 amended: a locked tile is never matchable (in no record of
\* findAllMatches, never counted in a run by MatchResolver.checkForMatchAt,
\* not selectable), and ice layers make no difference to any of the three:
\* each gives on a board what it gives on the board with the ice taken off
C12_LockedNeverMatchable ==
    /\ NeverMatchable(LAMBDA t : t.isLocked)
    /\ call.op = "findAllMatches" => call.ret = findAllMatches(Melted(call.gm))
    /\ call.op = "checkForMatchAt"
          => call.ret = checkForMatchAt(Melted(call.gm), call.args[1], call.args[2])
    /\ call.op = "handleTileSelect"
          => /\ call.ret = handleTileSelect(Melted(call.gm),
                                            call.args[1], call.args[2]).swap
             /\ gridManager.selectedTile
                   = handleTileSelect(Melted(call.gm),
                                      call.args[1], call.args[2]).gm.selectedTile

\* a locked tile between two unlocked tiles of its colour in row 0, and
\* findAllMatches has returned no record that holds its cell
C12_LockedTileBetweenEquals ==
    /\ call.op = "findAllMatches"
    /\ \E x \in 1 .. call.gm.width - 2 :
          /\ call.gm.grid[<<x, 0>>].isLocked
          /\ isMatchable(call.gm.grid[<<x - 1, 0>>])
          /\ isMatchable(call.gm.grid[<<x + 1, 0>>])
          /\ call.gm.grid[<<x - 1, 0>>].type = call.gm.grid[<<x, 0>>].type
          /\ call.gm.grid[<<x + 1, 0>>].type = call.gm.grid[<<x, 0>>].type
          /\ <<x, 0>> \notin MatchCells(call.ret)

(***************************************************************************)
(* C13.  Ice absorption, of processMatches called on the matches that       *)
(* findAllMatches finds: a matched tile with n >= 1 ice layers has n - 1    *)
(* after the call, whether it lies in one match or in a horizontal and a    *)
(* vertical one, and is among the cleared positions exactly if n = 1; so a  *)
(* tile with 2 layers has 1 and is not cleared after the first call and is  *)
(* cleared by the second.                                                   *)
(***************************************************************************)
\* the cells in clearedPositions of a returned value
ClearedCells(ret) ==
    {<<ret.clearedPositions[i].x, ret.clearedPositions[i].y>> :
        i \in 1 .. Len(ret.clearedPositions)}

C13_IceAbsorption ==
    call.op = "processMatches" =>
        /\ \A c \in MatchCells(call.args) :
              call.gm.grid[c].iceLayer >= 1
                 => /\ gridManager.grid[c].iceLayer = call.gm.grid[c].iceLayer - 1
                    /\ c \in ClearedCells(call.ret)
                          <=> call.gm.grid[c].iceLayer = 1
        /\ call.prev # NoCall
              => \A c \in MatchCells(call.args) :
                    call.prev.gm.grid[c].iceLayer = 2
                       => /\ call.gm.grid[c].iceLayer = 1
                          /\ c \notin ClearedCells(call.prev.ret)
                          /\ gridManager.grid[c].iceLayer = 0
                          /\ c \in ClearedCells(call.ret)

\* a tile with 2 layers lying in a horizontal and in a vertical match has
\* been matched by two calls and is cleared by the second
C13_TwoLayersAtCrossing ==
    /\ call.op = "processMatches"
    /\ call.prev # NoCall
    /\ \E c \in ClearedCells(call.ret) :
          /\ call.prev.gm.grid[c].iceLayer = 2
          /\ c \notin ClearedCells(call.prev.ret)
          /\ \E h, v \in 1 .. Len(call.args) :
                /\ call.args[h].type = "horizontal"
                /\ call.args[v].type = "vertical"
                /\ c \in MatchCells(<<call.args[h]>>)
                /\ c \in MatchCells(<<call.args[v]>>)

(***************************************************************************)
(* C15.  Special-tile derivation: for a match record of findAllMatches,     *)
(* getSpecialTileForMatch returns nothing for length 3; for length 4 a line *)
(* special two cells from the start of the run, clearing across the run     *)
(* (line-v for a horizontal run, line-h for a vertical one); for length 5   *)
(* or more a bomb floor(length / 2) cells from the start; the special has   *)
(* the colour of the match.                                                 *)
(***************************************************************************)
\* the cell k steps from the start of the run of a match record
RunCell(match, k) ==
    IF match.type = "horizontal"
    THEN Pos(match.tiles[1].x + k, match.tiles[1].y)
    ELSE Pos(match.tiles[1].x, match.tiles[1].y + k)

ProductiveSwap(gm, x1, y1, x2, y2) ==
    /\ isValidPosition(gm, x1, y1) /\ isValidPosition(gm, x2, y2)
    /\ canSwap(getTile(gm, x1, y1)) /\ canSwap(getTile(gm, x2, y2))
    /\ areAdjacent(x1, y1, x2, y2)
    /\ checkSwapForMatches(swap(gm, x1, y1, x2, y2), x1, y1, x2, y2)

C18_HintSound ==
    /\ (call.op = "findHint" /\ call.ret # NoHint)
          => ProductiveSwap(call.gm, call.ret.x1, call.ret.y1,
                            call.ret.x2, call.ret.y2)
    /\ (call.op = "hasPossibleMoves" /\ call.ret)
          => \E a, b \in DOMAIN call.gm.grid :
                ProductiveSwap(call.gm, a[1], a[2], b[1], b[2])

(***************************************************************************)
(* C14.  Special-tile activation: when the cascade of a call has come to    *)
(* its end (the call waits for the next round and the board has no match    *)
(* left), every cell in the area of effect of a special tile the call       *)
(* matched and cleared has been cleared by the call as well.                *)
(***************************************************************************)
C14_SpecialActivated ==
    \A i \in 1 .. Len(procs) :
        (procs[i].pc = "cascadeDelay" /\ findAllMatches(gridManager) = <<>>)
            => procs[i].owed = {}

(***************************************************************************)
(* C16.  No-spawn-match invariant: the grid initialize leaves has no        *)
(* horizontal or vertical run of 3 or more equal matchable tiles, and       *)
(* findAllMatches returns nothing on it, whatever the draws of the fill.    *)
(***************************************************************************)
\* three equal matchable tiles in a row or in a column, starting at c
RunOfThreeAt(gm, c) ==
    \E d \in {<<1, 0>>, <<0, 1>>} :
        /\ isValidPosition(gm, c[1] + 2 * d[1], c[2] + 2 * d[2])
        /\ \A k \in 0 .. 2 :
              /\ isMatchable(gm.grid[<<c[1] + k * d[1], c[2] + k * d[2]>>])
              /\ gm.grid[<<c[1] + k * d[1], c[2] + k * d[2]>>].type = gm.grid[c].type

C16_NoMatchAfterInitialize ==
    call.op = "initialize" =>
        /\ \A c \in DOMAIN gridManager.grid : ~RunOfThreeAt(gridManager, c)
        /\ findAllMatches(gridManager) = <<>>

\* the fill has come to a cell with two equal tiles to its left and two
\* equal tiles of another colour above it, and has drawn the third colour
C16_BothColoursExcluded ==
    /\ call.op = "initialize"
    /\ \E c \in DOMAIN gridManager.grid :
          /\ c[1] >= 2 /\ c[2] >= 2
          /\ isMatchable(gridManager.grid[c])
          /\ isMatchable(gridManager.grid[<<c[1] - 1, c[2]>>])
          /\ isMatchable(gridManager.grid[<<c[1], c[2] - 1>>])
          /\ gridManager.grid[<<c[1] - 1, c[2]>>].type = gridManager.grid[<<c[1] - 2, c[2]>>].type
          /\ gridManager.grid[<<c[1], c[2] - 1>>].type = gridManager.grid[<<c[1], c[2] - 2>>].type
          /\ gridManager.grid[<<c[1] - 1, c[2]>>].type # gridManager.grid[<<c[1], c[2] - 1>>].type

(***************************************************************************)
(* C17.  A swap request whose two cells are not both matchable when the     *)
(* request is handled, or are not orthogonally adjacent, is rejected: the   *)
(* orchestrator changes no state for it and takes no move.  This covers a   *)
(* request whose first cell was selected before the grid last changed.      *)
(* Stated on the two moments handleSwap handles a request: when it is       *)
(* called, a call that passes the guard is a call for two adjacent cells    *)
(* that both hold a matchable tile; when it comes back from animateSwap and *)
(* goes on to exchange the cells, it leaves the grid and the moves as they  *)
(* are unless both cells hold a matchable tile.                             *)
(***************************************************************************)
\* this step is a call of handleSwap that passed its guard
SwapAccepted == Len(procs') = Len(procs) + 1

\* the request handleSwap was called with in this step
AcceptedRequest == procs'[Len(procs')]

\* this step is the i-th handleSwap going on from its await of animateSwap
SwapPerformed(i) ==
    /\ i \in 1 .. Len(procs)
    /\ Len(procs') = Len(procs)
    /\ procs[i].pc = "animateSwap"
    /\ procs'[i].pc # "animateSwap"

\* the two cells of request p are cells of the grid, adjacent, and both hold
\* a matchable tile
SwappableRequest(gm, p) ==
    /\ isValidPosition(gm, p.x1, p.y1)
    /\ isValidPosition(gm, p.x2, p.y2)
    /\ isMatchable(getTile(gm, p.x1, p.y1))
    /\ isMatchable(getTile(gm, p.x2, p.y2))
    /\ areAdjacent(p.x1, p.y1, p.x2, p.y2)

C17_NonMatchableSwapRejected ==
    [][/\ SwapAccepted => SwappableRequest(gridManager, AcceptedRequest)
       /\ \A i \in 1 .. MaxSwaps :
             (SwapPerformed(i) /\ ~SwappableRequest(gridManager, procs[i])) =>
                 /\ gridManager'.grid = gridManager.grid
                 /\ levelManager'.movesRemaining = levelManager.movesRemaining]_vars

(***************************************************************************)
(* One move at a time, with no other input while it runs: handleSwap is     *)
(* called for a pair of cells handleTileSelect passes on, only its own      *)
(* awaits resolve until it has returned, and then the next call is made.    *)
(* call records the world the call found, its arguments and, for each       *)
(* processGravity call, the colours drawn for the spawned tiles; states is  *)
(* the value of gameState the call found, followed by the values the call   *)
(* has assigned to it, in order.                                            *)
(***************************************************************************)
\* the cells spawnNewTiles fills, in the order it visits them
spawnTargets(gm) ==
    SelectSeq(spawnOrder(gm),
              LAMBDA c : ~isPositionFixed(gm, c[1], c[2])
                            /\ isEmpty(getTile(gm, c[1], c[2])))

\* the colours drawn by the spawnNewTiles call that turned gm into spawned
drawsOf(gm, spawned) ==
    [k \in 1 .. Len(spawnTargets(gm)) |-> spawned.grid[spawnTargets(gm)[k]].type]

\* processGravity with the draws of its spawnNewTiles call given
processGravityWith(gm, draws) ==
    LET settled == applyGravityFully(gm)
    IN  IF hasSpawnTargets(settled)
        THEN applyGravityFully(CHOOSE g \in spawnNewTiles(settled) :
                                   drawsOf(settled, g) = draws)
        ELSE settled

\* processCascades run through with no suspension at its awaits; draws[k]
\* is what the k-th processGravity call draws
RECURSIVE processCascadesSkipped(_, _, _)
processCascadesSkipped(w, draws, k) ==
    LET w1 == setState(w, MATCHING)
        matches == findAllMatches(w1.gm)
        pm == processMatches(w1.gm, matches)
        gm1 == clearPositions(pm.gm, pm.clearedPositions, 1)
        gm2 == createSpecialTiles(gm1, pm.specialTiles, 1)
        w2 == setState([w1 EXCEPT !.gm = gm2], FALLING)
    IN  IF Len(matches) = 0 THEN w1
        ELSE processCascadesSkipped(
                 [w2 EXCEPT !.gm = processGravityWith(gm2, draws[k])],
                 draws, k + 1)

\* handleSwap run through with no suspension at its awaits
handleSwapSkipped(w, x1, y1, x2, y2, draws) ==
    LET w0 == [setState(w, SWAPPING) EXCEPT !.isProcessing = TRUE]
        w1 == [w0 EXCEPT !.gm = swap(w0.gm, x1, y1, x2, y2)]
        w2 == processCascadesSkipped(useMove(w1), draws, 1)
        w3 == setState(w2, CHARACTER_MOVING)
        mv == moveToHighestEmpty(w3.gm, w3.cc)
        w4 == [w3 EXCEPT !.gm = mv.gm, !.cc = mv.cc]
        w5 == IF hasEscaped(w4.cc) THEN triggerWin(w4)
              ELSE IF w4.lm.movesRemaining <= 0 THEN triggerLose(w4)
              ELSE w4
        w6 == IF checkSwapForMatches(w1.gm, x1, y1, x2, y2) THEN w5
              ELSE [w1 EXCEPT !.gm = swap(w1.gm, x1, y1, x2, y2)]
    IN  IF ~handleSwapGuard(w) THEN w
        ELSE [setState(w6, IDLE) EXCEPT !.isProcessing = FALSE]

\* the cascade rounds followed in one move
MaxCascade == 2

\* a level of LEVELS just loaded, with a budget of 1 .. MaxSwaps moves
MoveInit ==
    /\ \E index \in 0 .. Len(LEVELS) - 1, seed \in 0 .. MaxSeed, moves \in 1 .. MaxSwaps :
          LET lm == [startLevel(levelManager, index) EXCEPT
                        !.movesRemaining = moves, !.maxMoves = moves]
              w == loadCurrentLevel(
                       [gm |-> NullGridManager, cc |-> NullCharacterController,
                        lm |-> lm, isProcessing |-> FALSE,
                        winModal |-> FALSE, loseModal |-> FALSE], seed)
          IN  /\ gridManager = w.gm
              /\ characterController = w.cc
              /\ levelManager = w.lm
    /\ isProcessing = FALSE
    /\ startModal = FALSE
    /\ winModal = FALSE
    /\ loseModal = FALSE
    /\ procs = <<>>
    /\ swaps = 0
    /\ loads = 1
    /\ call = NoCall

\* handleSwap(x1, y1, x2, y2), called while no call is suspended
CallHandleSwap(x1, y1, x2, y2) ==
    LET started == startSwap(World, x1, y1, x2, y2, loads)
    IN  /\ procs = <<>>
        /\ swaps < MaxSwaps
        /\ handleSwapGuard(World)
        /\ isValidPosition(gridManager, x1, y1)
        /\ isValidPosition(gridManager, x2, y2)
        /\ canSwap(getTile(gridManager, x1, y1))
        /\ canSwap(getTile(gridManager, x2, y2))
        /\ areAdjacent(x1, y1, x2, y2)
        /\ Becomes(started.w)
        /\ procs' = <<started.p>>
        /\ swaps' = swaps + 1
        /\ call' = [op |-> "handleSwap", args |-> <<x1, y1, x2, y2>>,
                    start |-> World, draws |-> <<>>,
                    states |-> <<levelManager.gameState>> \o started.p.written]
        /\ UNCHANGED <<startModal, loads>>

\* the grid processGravity is called on when the call resumes from
\* animateMatch, settled by gravity
settledAfterMatch(w, p) ==
    applyGravityFully(
        createSpecialTiles(clearPositions(w.gm, p.clearedPositions, 1),
                           p.specialTiles, 1))

\* the await the call is suspended at resolves
AwaitResolves ==
    /\ Len(procs) = 1
    /\ \E o \in resume(World, procs[1]) :
          /\ o.p.rounds <= MaxCascade
          /\ Becomes(o.w)
          /\ procs' = IF o.done THEN <<>> ELSE <<o.p>>
          /\ IF procs[1].pc = "animateMatch"
             THEN LET settled == settledAfterMatch(World, procs[1])
                  IN  \E g \in IF hasSpawnTargets(settled)
                               THEN spawnNewTiles(settled) ELSE {settled} :
                         /\ applyGravityFully(g) = o.w.gm
                         /\ call' = [call EXCEPT
                                       !.draws = Append(@, drawsOf(settled, g)),
                                       !.states = @ \o o.p.written]
             ELSE call' = [call EXCEPT !.states = @ \o o.p.written]
    /\ UNCHANGED <<startModal, swaps, loads>>

MoveNext ==
    \/ \E x1 \in 0 .. 2, y1 \in 0 .. 2, x2 \in 0 .. 2, y2 \in 0 .. 2 :
          CallHandleSwap(x1, y1, x2, y2)
    \/ AwaitResolves

MoveSpec == MoveInit /\ [][MoveNext]_vars

(***************************************************************************)
(* C19.  Timing independence: for a single move with no other input while   *)
(* it runs, the world the move ends in (grid, character position,           *)
(* movesRemaining, game state) is the one handleSwap computes from the      *)
(* world it found, the swap and the spawn draws when none of its awaits     *)
(* suspends it; so it is a function of these alone, whatever the time each   *)
(* suspension takes.                                                         *)
(***************************************************************************)
\* the call of handleSwap has returned
MoveDone == call.op = "handleSwap" /\ procs = <<>>

StateEdges ==
    {<<IDLE, SWAPPING>>, <<SWAPPING, IDLE>>, <<SWAPPING, MATCHING>>,
     <<MATCHING, FALLING>>, <<FALLING, MATCHING>>,
     <<MATCHING, CHARACTER_MOVING>>, <<CHARACTER_MOVING, WIN>>,
     <<CHARACTER_MOVING, LOSE>>, <<CHARACTER_MOVING, IDLE>>}

C20_StateSequence ==
    call.op = "handleSwap" =>
        \A k \in 1 .. Len(call.states) - 1 :
            <<call.states[k], call.states[k + 1]>> \in StateEdges

(***************************************************************************)
(* C21.  The character's position changes only inside moveToHighestEmpty.   *)
(* A call runs it once, when its swap was productive, at a point where      *)
(* findAllMatches finds nothing on the current grid, and then returns       *)
(* (after the await of the character's animation if the character moved);   *)
(* a call whose swap was unproductive returns without running it, and no    *)
(* call goes back to a cascade round after it.  Loading a level creates a   *)
(* new character and is not a change of position in this sense.             *)
(***************************************************************************)
\* this step is the i-th call running moveCharacter: it comes from the
\* cascade loop and either returns or waits for the character's animation
MoveCharacterRan(i) ==
    /\ Resumed(i)
    /\ procs[i].pc \in {"animateSwap", "cascadeDelay"}
    /\ \/ procs' = RemoveAt(procs, i)
       \/ Len(procs') = Len(procs) /\ procs'[i].pc = "characterMove"

\* the grid the i-th call scans when it runs on from its await
GridScanned(i) ==
    IF procs[i].pc = "animateSwap"
    THEN swap(gridManager, procs[i].x1, procs[i].y1, procs[i].x2, procs[i].y2)
    ELSE gridManager

C21_CharacterMovesOnlyAfterCascade ==
    [][/\ (characterController'.character # characterController.character
              /\ loads' = loads)
          => \E i \in 1 .. Len(procs) : MoveCharacterRan(i)
       /\ \A i \in 1 .. Len(procs) :
             /\ MoveCharacterRan(i) => findAllMatches(GridScanned(i)) = <<>>
             /\ (Resumed(i) /\ procs' = RemoveAt(procs, i)) =>
                   IF procs[i].pc = "animateInvalidSwap"
                   THEN characterController' = characterController
                   ELSE procs[i].pc = "characterMove" \/ MoveCharacterRan(i)
             /\ (Resumed(i) /\ procs[i].pc = "characterMove") =>
                   /\ procs' = RemoveAt(procs, i)
                   /\ characterController' = characterController]_vars

\* a call has moved the character and waits for the animation
C21_CharacterAdvanced ==
    \E i \in 1 .. Len(procs) :
        /\ procs[i].pc = "characterMove"
        /\ procs[i].instance = loads
        /\ characterController.character.y < CurrentLevel.characterStart.y

(***************************************************************************)
(* C22.  Once a level is loaded, GridManager.characterPosition equals the   *)
(* position of the Character held by the CharacterController, and the grid  *)
(* cell at that position is an empty tile, or the exit tile when the        *)
(* character stands on the exit cell; no step changes one of the two        *)
(* positions and not the other.                                             *)
(***************************************************************************)
\* the tile of the cell the grid manager has the character in
CharacterCell ==
    getTile(gridManager, gridManager.characterPosition.x,
            gridManager.characterPosition.y)

InSomeMatch(gm, c) == c \in MatchCells(findAllMatches(gm))

\* checkForMatchAt agrees with findAllMatches on every cell of the grid
CheckAgreesWithScan(gm) ==
    \E cells \in {MatchCells(findAllMatches(gm))} :
        \A c \in DOMAIN gm.grid : checkForMatchAt(gm, c[1], c[2]) <=> c \in cells

\* the pairs of a cell and its right or lower neighbour
NeighbourPairs(gm) ==
    {<<c, d>> \in (DOMAIN gm.grid) \X (DOMAIN gm.grid) :
        d = <<c[1] + 1, c[2]>> \/ d = <<c[1], c[2] + 1>>}

\* a true test after an exchange means a match on the exchanged board
ProductiveMeansMatch(gm) ==
    \A pr \in NeighbourPairs(gm) :
        \E swapped \in {swap(gm, pr[1][1], pr[1][2], pr[2][1], pr[2][2])} :
            /\ CheckAgreesWithScan(swapped)
            /\ checkSwapForMatches(swapped, pr[1][1], pr[1][2], pr[2][1], pr[2][2])
                  => findAllMatches(swapped) # <<>>

C23_CheckForMatchAtIffInMatch ==
    /\ (call = NoCall \/ call.op = "processMatches")
          => CheckAgreesWithScan(gridManager)
    /\ call = NoCall => ProductiveMeansMatch(gridManager)
    /\ (call # NoCall /\ call.op = "checkForMatchAt")
          => call.ret = InSomeMatch(call.gm, call.args)

\* checkForMatchAt has been called on a cell that findAllMatches has in a
\* column match and in no row match, next to a tile that is locked or iced
C23_ColumnMatchThroughCell ==
    /\ call # NoCall
    /\ call.op = "checkForMatchAt"
    /\ call.ret
    /\ \E k \in 1 .. Len(findAllMatches(call.gm)) :
          /\ findAllMatches(call.gm)[k].type = "vertical"
          /\ call.args \in cellsOf(findAllMatches(call.gm)[k].tiles)
    /\ \A k \in 1 .. Len(findAllMatches(call.gm)) :
          findAllMatches(call.gm)[k].type = "horizontal"
             => call.args \notin cellsOf(findAllMatches(call.gm)[k].tiles)
    /\ \E c \in DOMAIN call.gm.grid : ~isMatchable(call.gm.grid[c])

\* in the game: a handleSwap call going on from animateSwap with a true
\* test finds a match in its first cascade round and waits at animateMatch;
\* with a false test it waits at animateInvalidSwap
ProductiveSwapFindsMatch ==
    [][\A i \in 1 .. Len(procs) :
          SwapPerformed(i) =>
              IF checkSwapForMatches(GridScanned(i), procs[i].x1, procs[i].y1,
                                     procs[i].x2, procs[i].y2)
              THEN /\ findAllMatches(GridScanned(i)) # <<>>
                   /\ procs'[i].pc = "animateMatch"
                   /\ procs'[i].rounds = 1
              ELSE procs'[i].pc = "animateInvalidSwap"]_vars

(***************************************************************************)
(* C24.  findAllMatches returns one record for every maximal run of three   *)
(* or more matchable tiles of one colour in a row or in a column, and no    *)
(* other record: the record lists the cells of the run in order and gives   *)
(* its orientation, its colour and its length.  A cell on a row run and on  *)
(* a column run is in both records; a run that ends at the edge of the      *)
(* grid is recorded like any other, and runs of one or two tiles are not    *)
(* recorded.                                                                *)
(***************************************************************************)
\* the tile at (x, y) is matchable and has the given colour
Coloured(gm, x, y, colour) ==
    isMatchable(getTile(gm, x, y)) /\ getTile(gm, x, y).type = colour

\* the n cells from (x, y) in direction (dx, dy) are a maximal run
MaximalRun(gm, x, y, dx, dy, n) ==
    LET colour == getTile(gm, x, y).type
    IN  /\ \A i \in 0 .. n - 1 : Coloured(gm, x + i * dx, y + i * dy, colour)
        /\ ~Coloured(gm, x - dx, y - dy, colour)
        /\ ~Coloured(gm, x + n * dx, y + n * dy, colour)

\* the record of the run of n cells from (x, y) in direction (dx, dy)
RunRecord(gm, x, y, dx, dy, n) ==
    [tiles |-> [i \in 1 .. n |-> Pos(x + (i - 1) * dx, y + (i - 1) * dy)],
     type |-> IF dx = 1 THEN "horizontal" ELSE "vertical",
     length |-> n,
     color |-> getTile(gm, x, y).type]

\* the cells and directions at which a run starts
RunStarts(gm) ==
    {q \in (DOMAIN gm.grid) \X {<<1, 0>>, <<0, 1>>} :
        /\ isMatchable(gm.grid[q[1]])
        /\ ~Coloured(gm, q[1][1] - q[2][1], q[1][2] - q[2][2], gm.grid[q[1]].type)}

\* the records of the maximal runs of MIN_MATCH cells or more
RunRecords(gm) ==
    {RunRecord(gm, r[1][1][1], r[1][1][2], r[1][2][1], r[1][2][2], r[2]) :
        r \in {q \in RunStarts(gm) \X (MIN_MATCH .. (gm.width + gm.height)) :
                  MaximalRun(gm, q[1][1][1], q[1][1][2], q[1][2][1], q[1][2][2],
                             q[2])}}

\* the list has the records of the maximal runs, each once, and no other
ExactlyTheRuns(gm, matches) ==
    /\ {matches[k] : k \in 1 .. Len(matches)} = RunRecords(gm)
    /\ \A j, k \in 1 .. Len(matches) : matches[j] = matches[k] => j = k

CrossSize == 4

CrossBoard(hx, hlen, vy, vlen, cx, cy, d, ice, locked) ==
    LET filler == <<"blue", "green", "yellow">>
        plain(x, y) ==
            IF \/ (y = cy /\ x >= hx /\ x < hx + hlen)
               \/ (x = cx /\ y >= vy /\ y < vy + vlen)
            THEN Tile("red")
            ELSE Tile(filler[((x + 2 * y) % 3) + 1])
        iced(x, y) == IF ice > 0 THEN addIce(plain(x, y), ice) ELSE plain(x, y)
        tile(x, y) == IF <<x, y>> = d
                      THEN IF locked THEN lock(iced(x, y)) ELSE iced(x, y)
                      ELSE plain(x, y)
    IN  [width |-> CrossSize, height |-> CrossSize,
         grid |-> [c \in Cells(CrossSize, CrossSize) |-> tile(c[1], c[2])],
         tileTypes |-> <<"red", "blue", "green", "yellow">>,
         exitPosition |-> NoPos,
         characterPosition |-> NoPos,
         selectedTile |-> NoPos]

CrossInit ==
    /\ \E hlen \in MIN_MATCH .. CrossSize, vlen \in MIN_MATCH .. CrossSize :
          \E hx \in 0 .. CrossSize - hlen, vy \in 0 .. CrossSize - vlen :
             \E cx \in hx .. hx + hlen - 1, cy \in vy .. vy + vlen - 1 :
                \E d \in Cells(CrossSize, CrossSize), ice \in 0 .. MaxIce,
                   locked \in BOOLEAN :
                   /\ ~(locked /\ ice > 0)
                   /\ gridManager = CrossBoard(hx, hlen, vy, vlen, cx, cy, d,
                                               ice, locked)
    /\ characterController = NullCharacterController
    /\ levelManager = [currentLevelIndex |-> 0, movesRemaining |-> 0,
                       maxMoves |-> 0, gameState |-> IDLE]
    /\ isProcessing = FALSE
    /\ startModal = FALSE
    /\ winModal = FALSE
    /\ loseModal = FALSE
    /\ procs = <<>>
    /\ swaps = 0
    /\ loads = 0
    /\ call = NoCall

CrossNext == CallProcessMatches

CrossSpec == CrossInit /\ [][CrossNext]_vars

(***************************************************************************)
(* C25.  processMatches returns a list of cleared positions that holds no   *)
(* cell twice, also when a cell lies on two matches; when it has returned,  *)
(* no tile orthogonally adjacent to a cleared cell is locked; and the list  *)
(* of specials holds, in the order of the match records, the special of     *)
(* every record that gives one, so two crossing runs of 4 or more give two  *)
(* specials.                                                                *)
(***************************************************************************)
\* the specials of the match records from the k-th on, in order
RECURSIVE specialsOf(_, _)
specialsOf(matches, k) ==
    IF k > Len(matches) THEN <<>>
    ELSE IF matches[k].length >= LINE_CLEAR_COUNT
    THEN <<getSpecialTileForMatch(matches[k])>> \o specialsOf(matches, k + 1)
    ELSE specialsOf(matches, k + 1)

\* the cells orthogonally adjacent to a cell of the list
adjacentCells(gm, positions) ==
    UNION {cellsOf(getAdjacentPositions(gm, positions[i].x, positions[i].y)) :
              i \in 1 .. Len(positions)}

C25_ClearedOnceUnlockedSpecials ==
    (call # NoCall /\ call.op = "processMatches") =>
        /\ \A i, j \in 1 .. Len(call.ret.clearedPositions) :
              call.ret.clearedPositions[i] = call.ret.clearedPositions[j] => i = j
        /\ cellsOf(call.ret.clearedPositions) \subseteq MatchCells(call.args)
        /\ \A c \in adjacentCells(gridManager, call.ret.clearedPositions) :
              ~gridManager.grid[c].isLocked
        /\ call.ret.specialTiles = specialsOf(call.args, 1)

\* processMatches has been called on two crossing runs of 4 cells or more
\* with a locked tile next to one of them: two specials, the crossing cell
\* cleared once, the locked tile unlocked
C25_TwoSpecialsFromCross ==
    /\ call # NoCall
    /\ call.op = "processMatches"
    /\ Len(call.args) = 2
    /\ call.args[1].length >= LINE_CLEAR_COUNT
    /\ call.args[2].length >= LINE_CLEAR_COUNT
    /\ cellsOf(call.args[1].tiles) \cap cellsOf(call.args[2].tiles) # {}
    /\ Len(call.ret.specialTiles) = 2
    /\ cellsOf(call.args[1].tiles) \cap cellsOf(call.args[2].tiles)
          \subseteq cellsOf(call.ret.clearedPositions)
    /\ \E c \in adjacentCells(gridManager, call.ret.clearedPositions) :
          call.gm.grid[c].isLocked

(***************************************************************************)
(* C26.  What processMatches does with the ice of a matched cell.  As       *)
(* stated: a matched cell whose tile has ice layers loses one layer and is  *)
(* not among the cleared positions of that call, also with one layer.       *)
(* Amended: a matched cell with n layers has n - 1 after the call (0 stays  *)
(* 0) and is otherwise the same tile; it is among the cleared positions     *)
(* exactly when n is 0 or 1, so a tile with one layer loses it and is       *)
(* cleared by the same call.                                                *)
(***************************************************************************)
\* the tile with the number of ice layers set to n
withIce(t, n) == [t EXCEPT !.iceLayer = n]

\* C26 as stated
C26_IcedCellNeverCleared ==
    (call # NoCall /\ call.op = "processMatches") =>
        \A c \in MatchCells(call.args) :
            call.gm.grid[c].iceLayer > 0
               => /\ gridManager.grid[c].iceLayer = call.gm.grid[c].iceLayer - 1
                  /\ c \notin cellsOf(call.ret.clearedPositions)

\* C26 amended
C26_IcedCellClearedWithLastLayer ==
    (call # NoCall /\ call.op = "processMatches") =>
        \A c \in MatchCells(call.args) :
            \E n \in {call.gm.grid[c].iceLayer} :
                /\ gridManager.grid[c]
                      = withIce(call.gm.grid[c], IF n > 0 THEN n - 1 ELSE 0)
                /\ c \in cellsOf(call.ret.clearedPositions) <=> n <= 1

\* processMatches has been called with a matched tile of one ice layer and
\* with one of two: the first is cleared, the second is not
C26_LastLayerCleared ==
    /\ call # NoCall
    /\ call.op = "processMatches"
    /\ \E c \in MatchCells(call.args) :
          /\ call.gm.grid[c].iceLayer = 1
          /\ gridManager.grid[c].iceLayer = 0
          /\ c \in cellsOf(call.ret.clearedPositions)
    /\ call.prev # NoCall
    /\ \E c \in MatchCells(call.args) :
          /\ call.prev.gm.grid[c].iceLayer = 2
          /\ c \notin cellsOf(call.prev.ret.clearedPositions)

(***************************************************************************)
(* MatchResolver.getSpecialTileAffectedPositions called directly on a       *)
(* board of AreaSize x AreaSize cells as a level load leaves it: the exit   *)
(* in the top row, the character in the bottom row of the same column (its  *)
(* cell holds an empty tile), one stone, and colour tiles elsewhere.        *)
(***************************************************************************)
\* cells in a row and in a column of the board
AreaSize == 4

AreaBoard(cx, stone) ==
    LET filler == <<"blue", "green", "yellow">>
        tile(x, y) ==
            IF <<x, y>> = <<cx, 0>> THEN Tile(EXIT)
            ELSE IF <<x, y>> = <<cx, AreaSize - 1>> THEN Tile(EMPTY)
            ELSE IF <<x, y>> = stone THEN Tile(STONE)
            ELSE Tile(filler[((x + 2 * y) % 3) + 1])
    IN  [width |-> AreaSize, height |-> AreaSize,
         grid |-> [c \in Cells(AreaSize, AreaSize) |-> tile(c[1], c[2])],
         tileTypes |-> <<"blue", "green", "yellow">>,
         exitPosition |-> Pos(cx, 0),
         characterPosition |-> Pos(cx, AreaSize - 1),
         selectedTile |-> NoPos]

AreaInit ==
    /\ \E cx \in 0 .. AreaSize - 1, stone \in Cells(AreaSize, AreaSize) :
          /\ stone \notin {<<cx, 0>>, <<cx, AreaSize - 1>>}
          /\ gridManager = AreaBoard(cx, stone)
          /\ characterController = [character |-> Pos(cx, AreaSize - 1),
                                    exitY |-> 0]
    /\ levelManager = [currentLevelIndex |-> 0, movesRemaining |-> 1,
                       maxMoves |-> 1, gameState |-> IDLE]
    /\ isProcessing = FALSE
    /\ startModal = FALSE
    /\ winModal = FALSE
    /\ loseModal = FALSE
    /\ procs = <<>>
    /\ swaps = 0
    /\ loads = 0
    /\ call = NoCall

\* matchResolver.getSpecialTileAffectedPositions(x, y, specialType)
CallGetSpecialTileAffectedPositions ==
    /\ call = NoCall
    /\ \E c \in DOMAIN gridManager.grid, specialType \in {LINE_H, LINE_V, BOMB} :
          Called("getSpecialTileAffectedPositions", <<c[1], c[2], specialType>>,
                 gridManager,
                 getSpecialTileAffectedPositions(gridManager, c[1], c[2],
                                                 specialType))

AreaNext == CallGetSpecialTileAffectedPositions

AreaSpec == AreaInit /\ [][AreaNext]_vars

(***************************************************************************)
(* C27.  getSpecialTileAffectedPositions returns the cells of the row of    *)
(* (x, y) for line-h, of its column for line-v, and of the 3 x 3 block      *)
(* around it that lie in the grid for bomb, in every case without the       *)
(* cells that hold a stone or the exit and without the cell at the grid     *)
(* manager's characterPosition.                                             *)
(***************************************************************************)
\* the cells of the area of a special of the given type at (x, y)
areaCells(gm, x, y, specialType) ==
    {c \in DOMAIN gm.grid :
        CASE specialType = LINE_H -> c[2] = y
          [] specialType = LINE_V -> c[1] = x
          [] specialType = BOMB ->
                c[1] \in x - 1 .. x + 1 /\ c[2] \in y - 1 .. y + 1
          [] OTHER -> FALSE}

\* the cells of the grid no special may clear
sparedCells(gm) ==
    {c \in DOMAIN gm.grid :
        \/ isBlocker(gm.grid[c])
        \/ isExit(gm.grid[c])
        \/ c = <<gm.characterPosition.x, gm.characterPosition.y>>}

C27_AreaSparesCharacterCell ==
    (call # NoCall /\ call.op = "getSpecialTileAffectedPositions") =>
        cellsOf(call.ret)
            = areaCells(call.gm, call.args[1], call.args[2], call.args[3])
                 \ sparedCells(call.gm)

(***************************************************************************)
(* GravitySystem called directly on a board of GravityWidth x GravityHeight *)
(* cells in the middle of a cascade: the exit in the top row, the character *)
(* in the bottom row of the same column, possibly a stone in the third row  *)
(* or a locked colour tile in the second, colour tiles elsewhere, and up to *)
(* MaxHoles cells emptied by the clearing of a match.  In shade 0 no two    *)
(* neighbours have the same colour; in shade 1 the first two tiles of every *)
(* row do.                                                                  *)
(***************************************************************************)
\* columns of the board
GravityWidth == 3
\* rows of the board
GravityHeight == 4
\* cells emptied before the call
MaxHoles == 2

\* no cell
NoCell == <<-1, -1>>

GravityBoard(ex, stone, locked, holes, shade) ==
    LET palette == <<"red", "blue", "green">>
        colour(x, y) ==
            IF shade = 0 THEN palette[((x + y) % 3) + 1]
            ELSE palette[((y + (x \div 2)) % 3) + 1]
        tile(x, y) ==
            IF <<x, y>> = <<ex, 0>> THEN Tile(EXIT)
            ELSE IF <<x, y>> = <<ex, GravityHeight - 1>> THEN Tile(EMPTY)
            ELSE IF <<x, y>> = stone THEN Tile(STONE)
            ELSE IF <<x, y>> \in holes THEN Tile(EMPTY)
            ELSE IF <<x, y>> = locked THEN lock(Tile(colour(x, y)))
            ELSE Tile(colour(x, y))
    IN  [width |-> GravityWidth, height |-> GravityHeight,
         grid |-> [c \in Cells(GravityWidth, GravityHeight) |-> tile(c[1], c[2])],
         tileTypes |-> palette,
         exitPosition |-> Pos(ex, 0),
         characterPosition |-> Pos(ex, GravityHeight - 1),
         selectedTile |-> NoPos]

GravityInit ==
    /\ \E ex \in 0 .. GravityWidth - 1, shade \in {0, 1},
          holes \in {h \in SUBSET Cells(GravityWidth, GravityHeight) :
                        Cardinality(h) <= MaxHoles} :
          \E block \in {<<NoCell, NoCell>>}
                          \cup {<<(<<x, 2>>), NoCell>> :
                                   x \in (0 .. GravityWidth - 1) \ {ex}}
                          \cup {<<NoCell, (<<x, 1>>)>> :
                                   x \in (0 .. GravityWidth - 1) \ {ex}} :
             /\ gridManager = GravityBoard(ex, block[1], block[2], holes, shade)
             /\ characterController = [character |-> Pos(ex, GravityHeight - 1),
                                       exitY |-> 0]
    /\ levelManager = [currentLevelIndex |-> 0, movesRemaining |-> 1,
                       maxMoves |-> 1, gameState |-> FALLING]
    /\ isProcessing = TRUE
    /\ startModal = FALSE
    /\ winModal = FALSE
    /\ loseModal = FALSE
    /\ procs = <<>>
    /\ swaps = 0
    /\ loads = 0
    /\ call = NoCall

\* the grid manager when the spawnNewTiles call that turns gm into spawned
\* comes to its k-th target
spawnedUpTo(gm, spawned, k) ==
    [gm EXCEPT !.grid = [c \in DOMAIN gm.grid |->
        IF \E j \in 1 .. k - 1 : spawnTargets(gm)[j] = c
        THEN spawned.grid[c] ELSE gm.grid[c]]]

\* for each target of that call: the cell, the list createNonMatchingTile
\* draws from and the colour drawn
spawnChoices(gm, spawned) ==
    [k \in 1 .. Len(spawnTargets(gm)) |->
        [cell |-> spawnTargets(gm)[k],
         types |-> nonMatchingTypes(spawnedUpTo(gm, spawned, k),
                                    spawnTargets(gm)[k][1], spawnTargets(gm)[k][2],
                                    gm.tileTypes),
         type |-> spawned.grid[spawnTargets(gm)[k]].type]]

\* gravitySystem.applyGravity()
CallApplyGravity ==
    /\ call = NoCall
    /\ Called("applyGravity", <<>>, applyGravity(gridManager).gm,
              applyGravity(gridManager).moved)

\* gravitySystem.applyGravityFully()
CallApplyGravityFully ==
    /\ call = NoCall
    /\ Called("applyGravityFully", <<>>, applyGravityFully(gridManager), 0)

\* gravitySystem.spawnNewTiles()
CallSpawnNewTiles ==
    /\ call = NoCall
    /\ \E spawned \in spawnNewTiles(gridManager) :
          Called("spawnNewTiles", <<>>, spawned,
                 spawnChoices(gridManager, spawned))

\* gravitySystem.processGravity()
CallProcessGravity ==
    /\ call = NoCall
    /\ \E settled \in {applyGravityFully(gridManager)} :
          \E gm \in processGravity(gridManager) :
             Called("processGravity", <<>>, gm,
                    IF hasSpawnTargets(settled)
                    THEN {spawnChoices(settled, g) :
                             g \in {h \in spawnNewTiles(settled) :
                                       applyGravityFully(h) = gm}}
                    ELSE {})

GravityNext ==
    \/ CallApplyGravity
    \/ CallApplyGravityFully
    \/ CallSpawnNewTiles
    \/ CallProcessGravity

GravitySpec == GravityInit /\ [][GravityNext]_vars

(***************************************************************************)
(* C28.  spawnNewTiles applies no match avoidance: for every cell it fills, *)
(* the colours the new tile is drawn from are the whole palette of the      *)
(* level, also when the two cells to the left of the cell, or the two       *)
(* cells above it, hold tiles of one colour.                                *)
(***************************************************************************)
C28_SpawnFromWholePalette ==
    (call # NoCall /\ call.op = "spawnNewTiles") =>
        \A k \in 1 .. Len(call.ret) :
            SeqRange(call.ret[k].types) = SeqRange(call.gm.tileTypes)

(***************************************************************************)
(* C29.  When a processGravity call has returned, every cell of the grid    *)
(* other than the character's cell holds a tile that is not empty, and the  *)
(* character's cell still holds its empty tile: it is no spawn target.  A   *)
(* cell other than the character's becomes empty, between two level loads,  *)
(* only when the character leaves it in moveCharacter; so at rest the empty *)
(* cells are the character's cell and the cells the character has left      *)
(* since the last processGravity call.                                      *)
(***************************************************************************)
\* the cells with an empty tile other than the character's cell
OtherEmptyCells(gm) ==
    {c \in DOMAIN gm.grid :
        /\ isEmpty(gm.grid[c])
        /\ c # <<gm.characterPosition.x, gm.characterPosition.y>>}

\* the cells of the character's column from the row below the character
\* down to the row of the level's start cell
VacatedCells ==
    {c \in DOMAIN gridManager.grid :
        /\ c[1] = gridManager.characterPosition.x
        /\ c[2] > gridManager.characterPosition.y
        /\ c[2] <= CurrentLevel.characterStart.y}

\* this step is the i-th call running processGravity
GravityRan(i) == Resumed(i) /\ procs[i].pc = "animateMatch"

Movable(gm, c) == ~isPositionFixed(gm, c[1], c[2]) /\ isMatchable(gm.grid[c])

\* no empty cell that is not fixed has a movable tile above it
Settled(gm) ==
    \A c \in DOMAIN gm.grid :
        (isEmpty(gm.grid[c]) /\ ~isPositionFixed(gm, c[1], c[2]))
           => \A d \in DOMAIN gm.grid :
                 (d[1] = c[1] /\ d[2] < c[2]) => ~Movable(gm, d)

C30_SettledAfterGravityFully ==
    /\ (call # NoCall /\ call.op = "applyGravityFully") => Settled(gridManager)
    /\ (call # NoCall /\ call.op = "applyGravity")
          => (call.ret = 0 <=> Settled(call.gm))

\* applyGravityFully has been called on a grid that one pass does not
\* settle
C30_TwoPassesNeeded ==
    /\ call # NoCall
    /\ call.op = "applyGravityFully"
    /\ ~Settled(call.gm)
    /\ ~Settled(applyGravity(call.gm).gm)
    /\ Settled(gridManager)

(***************************************************************************)
(* C31.  Tiles fall around fixed cells, not through them: a pass of         *)
(* applyGravity moves no tile from a cell above a fixed cell (stone, exit,  *)
(* character's cell) to a cell below it in the same column.  Tiles only     *)
(* move down, so this says that under every fixed cell of a column there    *)
(* are as many tiles that are not empty after the pass as before it.        *)
(***************************************************************************)
\* the number of cells of column x below row y whose tile is not empty
tilesBelow(gm, x, y) ==
    Cardinality({c \in DOMAIN gm.grid :
                    c[1] = x /\ c[2] > y /\ ~isEmpty(gm.grid[c])})

C31_NoFallThroughFixedCell ==
    (call # NoCall /\ call.op = "applyGravity") =>
        \A c \in DOMAIN call.gm.grid :
            isPositionFixed(call.gm, c[1], c[2])
               => tilesBelow(gridManager, c[1], c[2])
                     = tilesBelow(call.gm, c[1], c[2])

(***************************************************************************)
(* C32.  findHint returns the first pair, scanning the cells row by row     *)
(* and trying the right neighbour before the down neighbour, of two         *)
(* adjacent matchable cells whose exchange leaves a run of three or more    *)
(* matchable tiles of one colour at one of the two cells; it returns null   *)
(* exactly when there is no such pair; and hasPossibleMoves is true exactly *)
(* when findHint returns a pair.                                            *)
(***************************************************************************)
\* the pairs findHint tries, in the order it tries them: cell k of the
\* row-major scan with its right neighbour (2k) and its down neighbour (2k+1)
hintPair(gm, n) ==
    LET k == n \div 2
        x == k % gm.width
        y == k \div gm.width
    IN  IF n % 2 = 0 THEN [x1 |-> x, y1 |-> y, x2 |-> x + 1, y2 |-> y]
        ELSE [x1 |-> x, y1 |-> y, x2 |-> x, y2 |-> y + 1]

\* two matchable cells of the grid whose exchange leaves a run at one of them
yieldsRun(gm, p) ==
    /\ isValidPosition(gm, p.x2, p.y2)
    /\ isMatchable(getTile(gm, p.x1, p.y1))
    /\ isMatchable(getTile(gm, p.x2, p.y2))
    /\ checkSwapForMatches(swap(gm, p.x1, p.y1, p.x2, p.y2),
                           p.x1, p.y1, p.x2, p.y2)

hintRanks(gm) ==
    {n \in 0 .. 2 * gm.width * gm.height - 1 : yieldsRun(gm, hintPair(gm, n))}

firstHint(gm) ==
    IF hintRanks(gm) = {} THEN NoHint
    ELSE hintPair(gm, CHOOSE n \in hintRanks(gm) :
                          \A m \in hintRanks(gm) : n <= m)

C32_FindHintFirstPair ==
    /\ call.op = "findHint" => call.ret = firstHint(call.gm)
    /\ call.op = "hasPossibleMoves" => (call.ret <=> firstHint(call.gm) # NoHint)

(***************************************************************************)
(* C33.  findHint and hasPossibleMoves are read-only in effect: after       *)
(* either call every cell holds the same tile as before it (kind, ice,      *)
(* lock, special tag and stored coordinates), whether or not a pair was     *)
(* found, and movesRemaining and gameState are what they were.              *)
(***************************************************************************)
\* the grid with the coordinates each tile object stores (tile.x, tile.y):
\* every tile is constructed with, and setTile writes, those of its cell
storedTiles(gm) ==
    [c \in DOMAIN gm.grid |-> [tile |-> gm.grid[c], x |-> c[1], y |-> c[2]]]

\* GridManager.swap on the tile objects with their stored coordinates
swapStored(cells, x1, y1, x2, y2) ==
    LET tile1 == cells[<<x1, y1>>]
        tile2 == cells[<<x2, y2>>]
        moved1 == [tile1 EXCEPT !.x = x2, !.y = y2]
        \* tile1 and tile2 are one object when the two cells are one cell
        moved2 == IF <<x1, y1>> = <<x2, y2>>
                  THEN [tile1 EXCEPT !.x = x1, !.y = y1]
                  ELSE [tile2 EXCEPT !.x = x1, !.y = y1]
    IN  [c \in DOMAIN cells |->
            IF c = <<x2, y2>> THEN (IF c = <<x1, y1>> THEN moved2 ELSE moved1)
            ELSE IF c = <<x1, y1>> THEN moved2
            ELSE cells[c]]

\* the pairs of cells findHint and hasPossibleMoves exchange and exchange back
probedPairs(gm) ==
    {p \in {hintPair(gm, n) : n \in 0 .. 2 * gm.width * gm.height - 1} :
        /\ isValidPosition(gm, p.x2, p.y2)
        /\ isMatchable(getTile(gm, p.x1, p.y1))
        /\ isMatchable(getTile(gm, p.x2, p.y2))}

(***************************************************************************)
(* findHint and hasPossibleMoves called on the boards of GravityInit:       *)
(* boards with a stone or a locked tile, the exit, the character's cell and *)
(* up to MaxHoles cleared cells, some with a pair to find and some without. *)
(***************************************************************************)
HintNext ==
    \/ CallFindHint
    \/ CallHasPossibleMoves

HintSpec == GravityInit /\ [][HintNext]_vars

C33_HintReadOnly ==
    [][(call'.op = "findHint" \/ call'.op = "hasPossibleMoves") =>
          /\ gridManager' = gridManager
          /\ \A p \in probedPairs(gridManager) :
                /\ swap(swap(gridManager, p.x1, p.y1, p.x2, p.y2),
                        p.x1, p.y1, p.x2, p.y2) = gridManager
                /\ swapStored(swapStored(storedTiles(gridManager),
                                         p.x1, p.y1, p.x2, p.y2),
                              p.x1, p.y1, p.x2, p.y2)
                      = storedTiles(gridManager)
          /\ levelManager'.movesRemaining = levelManager.movesRemaining
          /\ levelManager'.gameState = levelManager.gameState]_vars

\* a call that found no pair after exchanging some pairs there and back
C33_NoHintAfterProbes ==
    /\ call.op = "findHint"
    /\ call.ret = NoHint
    /\ gridManager = call.gm
    /\ probedPairs(call.gm) # {}

(***************************************************************************)
(* GridManager.swap called directly, once and then once more with the same  *)
(* arguments, for every two cells of a board of SwapSize x SwapSize cells   *)
(* whose tiles all differ: colour tiles plain, iced, locked and special, a  *)
(* stone, an empty cell and the exit, laid out from any cell onwards.       *)
(***************************************************************************)
SwapSize == 3

SwapTiles ==
    <<Tile("red"), addIce(Tile("blue"), 2), lock(Tile("green")),
      setSpecial(Tile("yellow"), LINE_H), Tile(STONE), Tile(EMPTY),
      setSpecial(addIce(Tile("red"), 1), BOMB), Tile(EXIT), Tile("blue")>>

SwapBoard(r) ==
    [width |-> SwapSize, height |-> SwapSize,
     grid |-> [c \in Cells(SwapSize, SwapSize) |->
                  SwapTiles[((c[1] + SwapSize * c[2] + r) % Len(SwapTiles)) + 1]],
     tileTypes |-> <<"red", "blue", "green", "yellow">>,
     exitPosition |-> NoPos,
     characterPosition |-> NoPos,
     selectedTile |-> NoPos]

SwapInit ==
    /\ \E r \in 0 .. Len(SwapTiles) - 1 : gridManager = SwapBoard(r)
    /\ characterController = NullCharacterController
    /\ levelManager = [currentLevelIndex |-> 0, movesRemaining |-> 1,
                       maxMoves |-> 1, gameState |-> IDLE]
    /\ isProcessing = FALSE
    /\ startModal = FALSE
    /\ winModal = FALSE
    /\ loseModal = FALSE
    /\ procs = <<>>
    /\ swaps = 0
    /\ loads = 0
    /\ call = NoCall

\* gridManager.swap(x1, y1, x2, y2)
CallSwap ==
    /\ call = NoCall
    /\ \E a, b \in DOMAIN gridManager.grid :
          Called("swap", <<a, b>>,
                 swap(gridManager, a[1], a[2], b[1], b[2]), 0)

\* the same call once more
CallSwapAgain ==
    /\ call # NoCall /\ call.op = "swap" /\ call.nth = 1
    /\ Called("swap", call.args,
              swap(gridManager, call.args[1][1], call.args[1][2],
                   call.args[2][1], call.args[2][2]), 0)

SwapNext ==
    \/ CallSwap
    \/ CallSwapAgain

SwapSpec == SwapInit /\ [][SwapNext]_vars

(***************************************************************************)
(* C34.  swap(p1, p2) on two cells of the grid exchanges the whole tiles of *)
(* the two cells (kind, ice count, lock flag and special tag travel with    *)
(* the tile, whose stored coordinates become those of the cell it lands     *)
(* in), leaves every other cell as it was, is made whether or not the cells *)
(* are adjacent and whatever they hold, and made twice gives back the grid  *)
(* there was.                                                               *)
(***************************************************************************)
C34_SwapExchanges ==
    (call # NoCall /\ call.op = "swap") =>
        LET a == call.args[1]
            b == call.args[2]
            stored == swapStored(storedTiles(call.gm), a[1], a[2], b[1], b[2])
        IN  /\ gridManager.grid[a] = call.gm.grid[b]
            /\ gridManager.grid[b] = call.gm.grid[a]
            /\ \A c \in DOMAIN call.gm.grid :
                  c \notin {a, b} => gridManager.grid[c] = call.gm.grid[c]
            /\ gridManager = [call.gm EXCEPT !.grid = gridManager.grid]
            /\ stored = storedTiles(gridManager)
            /\ call.nth = 2 => gridManager = call.prev.gm

\* the second of two swaps of a locked tile with a stone two cells away
C34_SwappedTwiceApart ==
    /\ call # NoCall /\ call.op = "swap" /\ call.nth = 2
    /\ ~areAdjacent(call.args[1][1], call.args[1][2],
                    call.args[2][1], call.args[2][2])
    /\ call.args[1] # call.args[2]
    /\ call.prev.gm.grid[call.args[1]].isLocked
    /\ isBlocker(call.prev.gm.grid[call.args[2]])

(***************************************************************************)
(* Game.loadCurrentLevel on a level configuration that is wrong in one      *)
(* respect (LevelManager.loadLevels takes any array of configurations),     *)
(* followed by clicks on the tiles of the board it rendered.                *)
(***************************************************************************)
ConfigWidth == 3
ConfigHeight == 2

BaseConfig ==
    [gridWidth |-> ConfigWidth, gridHeight |-> ConfigHeight, maxMoves |-> 1,
     characterStart |-> Pos(1, ConfigHeight - 1),
     exitPosition |-> Pos(1, 0),
     blockers |-> << Blocker(STONE, 0, ConfigHeight - 1) >>,
     tileTypes |-> <<"red", "blue">>]

\* the configuration asks for a cell the grid does not have, for no colour,
\* or for a grid without columns or without rows
InvalidConfig(level) ==
    LET inGrid(p) == /\ p.x \in 0 .. level.gridWidth - 1
                     /\ p.y \in 0 .. level.gridHeight - 1
    IN  \/ ~inGrid(level.exitPosition)
        \/ ~inGrid(level.characterStart)
        \/ \E i \in 1 .. Len(level.blockers) : ~inGrid(level.blockers[i])
        \/ level.tileTypes = <<>>
        \/ level.gridWidth <= 0
        \/ level.gridHeight <= 0

\* BaseConfig with one field changed
InvalidConfigs ==
    LET off == {Pos(-1, 0), Pos(ConfigWidth, 0), Pos(ConfigWidth, 1),
                Pos(1, -1), Pos(1, ConfigHeight), Pos(0, ConfigHeight)}
    IN  {[BaseConfig EXCEPT !.exitPosition = p] : p \in off}
           \cup {[BaseConfig EXCEPT !.characterStart = p] : p \in off}
           \cup {[BaseConfig EXCEPT !.blockers = << Blocker(STONE, p.x, p.y) >>] :
                    p \in off}
           \cup {[BaseConfig EXCEPT !.tileTypes = <<>>]}
           \cup {[BaseConfig EXCEPT !.gridWidth = w] : w \in {-1, 0}}
           \cup {[BaseConfig EXCEPT !.gridHeight = h] : h \in {-1, 0}}

\* the cells initialize writes before its fill loop, in the order of the
\* writes: the blockers, the exit, the character's start
fixedWrites(level) ==
    [i \in 1 .. Len(level.blockers) |->
        [x |-> level.blockers[i].x, y |-> level.blockers[i].y,
         tile |-> placeBlocker([c \in {<<level.blockers[i].x,
                                         level.blockers[i].y>>} |-> NullTile],
                               level.blockers[i])
                     [<<level.blockers[i].x, level.blockers[i].y>>]]]
       \o << [x |-> level.exitPosition.x, y |-> level.exitPosition.y,
              tile |-> Tile(EXIT)],
             [x |-> level.characterStart.x, y |-> level.characterStart.y,
              tile |-> Tile(EMPTY)] >>

\* this.grid[y][x] = tile throws a TypeError when the grid has no row y
\* (this.grid[y] is undefined); with a row y and no column x it adds a
\* property to the row's array and throws nothing
writeThrows(level, wr) == wr.y \notin 0 .. level.gridHeight - 1

\* the writes made before the first one that throws
RECURSIVE writesMade(_, _, _)
writesMade(level, writes, i) ==
    IF i > Len(writes) \/ writeThrows(level, writes[i]) THEN <<>>
    ELSE <<writes[i]>> \o writesMade(level, writes, i + 1)

\* the grid manager after the writes made, every other cell null
placeWrites(level, made) ==
    LET cells == Cells(level.gridWidth, level.gridHeight)
        last(c) == CHOOSE i \in 1 .. Len(made) :
                      /\ <<made[i].x, made[i].y>> = c
                      /\ \A j \in i + 1 .. Len(made) : <<made[j].x, made[j].y>> # c
    IN  [width |-> level.gridWidth,
         height |-> level.gridHeight,
         grid |-> [c \in cells |->
                      IF \E i \in 1 .. Len(made) : <<made[i].x, made[i].y>> = c
                      THEN made[last(c)].tile
                      ELSE NullTile],
         tileTypes |-> level.tileTypes,
         exitPosition |-> level.exitPosition,
         characterPosition |-> level.characterStart,
         selectedTile |-> NoPos]

\* with no colour to draw, createNonMatchingTile makes tiles of type undefined
fillUndefined(gm) ==
    [gm EXCEPT !.grid = [c \in DOMAIN gm.grid |->
                            IF gm.grid[c].type = NULL THEN Tile("undefined")
                            ELSE gm.grid[c]]]

\* new GridManager(gridWidth, gridHeight).initialize(level) for any level:
\* the outcomes [error, gm], one per sequence of draws
initializeOutcomes(level) ==
    LET writes == fixedWrites(level)
        made == writesMade(level, writes, 1)
        placed == placeWrites(level, made)
    IN  IF Len(made) < Len(writes)
        THEN {[error |-> TRUE, gm |-> placed]}
        ELSE IF level.tileTypes = <<>>
        THEN {[error |-> FALSE, gm |-> fillUndefined(placed)]}
        ELSE {[error |-> FALSE, gm |-> g] :
                 g \in SeqRange(fillRemainingAny(placed, 0))}

ConfigInit ==
    /\ gridManager = NullGridManager
    /\ characterController = NullCharacterController
    /\ levelManager = [currentLevelIndex |-> 0, movesRemaining |-> 1,
                       maxMoves |-> 1, gameState |-> IDLE]
    /\ isProcessing = FALSE
    /\ startModal = FALSE
    /\ winModal = FALSE
    /\ loseModal = FALSE
    /\ procs = <<>>
    /\ swaps = 0
    /\ loads = 0
    /\ call = NoCall

\* game.loadCurrentLevel() with levelManager.currentLevel = level; the board
\* is rendered and the swap callback set only when initialize returns
CallLoadCurrentLevel ==
    /\ call = NoCall
    /\ \E level \in InvalidConfigs :
          \E o \in initializeOutcomes(level) :
             Called("loadCurrentLevel", [level |-> level, cell |-> <<-1, -1>>],
                    o.gm, [error |-> o.error, swap |-> FALSE])

\* a click on a rendered tile: gridManager.handleTileSelect(x, y)
CallClickTile ==
    /\ call # NoCall
    /\ ~call.ret.error
    /\ call.nth <= MaxCalls
    /\ \E c \in DOMAIN gridManager.grid :
          Called("handleTileSelect", [level |-> call.args.level, cell |-> c],
                 handleTileSelect(gridManager, c[1], c[2]).gm,
                 [error |-> FALSE,
                  swap |-> handleTileSelect(gridManager, c[1], c[2]).swap])

ConfigNext ==
    \/ CallLoadCurrentLevel
    \/ CallClickTile

ConfigSpec == ConfigInit /\ [][ConfigNext]_vars

(***************************************************************************)
(* C35.  An invalid level configuration (exit, character start or blocker   *)
(* coordinates outside the grid, an empty palette, a width or height that   *)
(* is not positive) fails when the level is loaded: the load ends in an     *)
(* error, and no swap is ever started on the level.                         *)
(***************************************************************************)
C35_InvalidLevelFailsAtLoad ==
    (call # NoCall /\ InvalidConfig(call.args.level)) =>
        /\ call.ret.error
        /\ ~call.ret.swap

(***************************************************************************)
(* C36.  In every reachable state 0 <= movesRemaining <= maxMoves.  A       *)
(* (re)start of a level sets movesRemaining to the level's maxMoves; any    *)
(* other step leaves maxMoves alone and leaves movesRemaining as it is or   *)
(* takes one off it, never below 0; and the movesUsed reported with a win   *)
(* is maxMoves - movesRemaining, a number of 0 .. maxMoves.                 *)
(***************************************************************************)
C36_MovesWithinBudget ==
    /\ [](/\ 0 <= levelManager.movesRemaining
          /\ levelManager.movesRemaining <= levelManager.maxMoves)
    /\ [][IF loads' # loads
          THEN /\ levelManager'.maxMoves
                     = levelMaxMoves(LEVELS[levelManager'.currentLevelIndex + 1])
               /\ levelManager'.movesRemaining = levelManager'.maxMoves
          ELSE /\ levelManager'.maxMoves = levelManager.maxMoves
               /\ levelManager'.currentLevelIndex = levelManager.currentLevelIndex
               /\ levelManager'.movesRemaining
                     \in {levelManager.movesRemaining,
                          levelManager.movesRemaining - 1}
               /\ (winModal' /\ ~winModal) =>
                     /\ movesUsed(levelManager') \in 0 .. levelManager'.maxMoves
                     /\ movesUsed(levelManager') + levelManager'.movesRemaining
                           = levelMaxMoves(CurrentLevel)]_vars

\* a productive swap made with no move left: useMove has taken nothing
C36_SwapWithSpentBudget ==
    \E i \in 1 .. Len(procs) :
        /\ Pending(procs[i])
        /\ ~procs[i].moveUsed
        /\ levelManager.movesRemaining = 0

(***************************************************************************)
(* A game in progress on a level of 5 x 3 cells with ice and a lock on      *)
(* colour tiles (Tile.addIce, Tile.lock): the board is at rest,             *)
(*                                                                          *)
(*        red    red    blue   red    exit                                  *)
(*        yellow green  red    yellow blue                                  *)
(*        green  yellow green  blue   (character)                           *)
(*                                                                          *)
(* one tile of the run to come carries 1 .. MaxIce layers of ice, and a     *)
(* tile in it or under it may be locked.  Exchanging (2,0) and (2,1) makes  *)
(* a run of four red tiles in row 0, which leaves a special tile; the new   *)
(* tiles are drawn from green and yellow.                                   *)
(***************************************************************************)
IceBoard(iced, layers, locked) ==
    LET rows == << <<"red", "red", "blue", "red", EXIT>>,
                   <<"yellow", "green", "red", "yellow", "blue">>,
                   <<"green", "yellow", "green", "blue", EMPTY>> >>
        plain(c) == Tile(rows[c[2] + 1][c[1] + 1])
        frozen(c) == IF c = iced THEN addIce(plain(c), layers) ELSE plain(c)
    IN  [width |-> 5, height |-> 3,
         grid |-> [c \in Cells(5, 3) |->
                      IF c = locked THEN lock(frozen(c)) ELSE frozen(c)],
         tileTypes |-> <<"green", "yellow">>,
         exitPosition |-> Pos(4, 0),
         characterPosition |-> Pos(4, 2),
         selectedTile |-> NoPos]

IceInit ==
    /\ \E iced \in {<<0, 0>>, <<1, 0>>, <<2, 1>>}, layers \in 1 .. MaxIce,
          locked \in {NoCell, <<0, 0>>, <<0, 1>>, <<1, 1>>} :
          gridManager = IceBoard(iced, layers, locked)
    /\ characterController = [character |-> Pos(4, 2), exitY |-> 0]
    /\ levelManager = [currentLevelIndex |-> 0, movesRemaining |-> 2,
                       maxMoves |-> 3, gameState |-> IDLE]
    /\ isProcessing = FALSE
    /\ startModal = FALSE
    /\ winModal = FALSE
    /\ loseModal = FALSE
    /\ procs = <<>>
    /\ swaps = MaxSwaps - 1
    /\ loads = 1
    /\ call = NoCall

IceSpec == IceInit /\ [][SpecialNext]_vars

(***************************************************************************)
(* C37.  Ice and locks only go away during play: no step of a level makes   *)
(* the sum of the ice layers of all tiles larger, the sum is never          *)
(* negative, no cell with an unlocked tile or none comes to hold a locked   *)
(* tile, and the tiles spawned and the special tiles placed have no ice and *)
(* no lock.                                                                 *)
(***************************************************************************)
RECURSIVE iceOver(_, _)
iceOver(gm, cells) ==
    IF cells = {} THEN 0
    ELSE LET c == CHOOSE d \in cells : TRUE
         IN  gm.grid[c].iceLayer + iceOver(gm, cells \ {c})

\* the sum of iceLayer over the tiles of the grid
iceSum(gm) == iceOver(gm, DOMAIN gm.grid)

lockedCells(gm) == {c \in DOMAIN gm.grid : gm.grid[c].isLocked}

bare(t) == t.iceLayer = 0 /\ ~t.isLocked

\* the tiles the i-th call places when it runs on from animateMatch: the
\* special tiles, and the tiles of each outcome of spawnNewTiles
FreshTilesBare(i) ==
    LET p == procs[i]
        cleared == clearPositions(gridManager, p.clearedPositions, 1)
        placed == createSpecialTiles(cleared, p.specialTiles, 1)
        settled == applyGravityFully(placed)
    IN  /\ \A k \in 1 .. Len(p.specialTiles) :
              LET t == placed.grid[<<p.specialTiles[k].position.x,
                                     p.specialTiles[k].position.y>>]
              IN  t.specialType # NULL /\ bare(t)
        /\ \A g \in spawnNewTiles(settled) :
              \A c \in DOMAIN g.grid :
                  g.grid[c] # settled.grid[c] => bare(g.grid[c])

C37_IceAndLocksOnlyGoAway ==
    /\ [](\A c \in DOMAIN gridManager.grid : gridManager.grid[c].iceLayer >= 0)
    /\ [][loads' = loads =>
             /\ iceSum(gridManager') <= iceSum(gridManager)
             /\ lockedCells(gridManager') \subseteq lockedCells(gridManager)
             /\ \A i \in 1 .. Len(procs) :
                   (Resumed(i) /\ procs[i].pc = "animateMatch")
                      => FreshTilesBare(i)]_vars

\* a cascade has ended with no ice and no lock left and a special tile placed
C37_IceAndLockGone ==
    /\ procs = <<>>
    /\ swaps = MaxSwaps
    /\ iceSum(gridManager) = 0
    /\ lockedCells(gridManager) = {}
    /\ \E c \in DOMAIN gridManager.grid : gridManager.grid[c].specialType # NULL

(***************************************************************************)
(* C38.  Gravity conserves tiles: for every column, the tiles that are not  *)
(* empty, read from the top to the bottom with kind, ice, lock and special  *)
(* tag, are the same sequence before and after a pass of applyGravity, so   *)
(* no tile is made, lost, doubled, moved to another column or overtaken;    *)
(* and a pass moves tiles downwards only.                                   *)
(***************************************************************************)
notEmpty(t) == ~isEmpty(t)

\* the tiles of column x that are not empty, from the top
columnTiles(gm, x) ==
    SelectSeq([k \in 1 .. gm.height |-> gm.grid[<<x, k - 1>>]], notEmpty)

C38_GravityConservesColumns ==
    (call # NoCall /\ call.op = "applyGravity") =>
        \A x \in 0 .. call.gm.width - 1 :
            /\ columnTiles(gridManager, x) = columnTiles(call.gm, x)
            /\ \A y \in 0 .. call.gm.height - 1 :
                  tilesBelow(gridManager, x, y) >= tilesBelow(call.gm, x, y)

(***************************************************************************)
(* C39.  Within a level the character's column never changes and its row    *)
(* never increases; the character is never above the exit row; and once     *)
(* hasEscaped is true it stays true until a level is loaded again.          *)
(***************************************************************************)
C39_CharacterOnlyUpToExitRow ==
    /\ [](loads > 0 =>
             characterController.character.y >= characterController.exitY)
    /\ [][(loads' = loads /\ loads > 0) =>
             /\ characterController'.character.x = characterController.character.x
             /\ characterController'.character.y <= characterController.character.y
             /\ characterController'.exitY = characterController.exitY
             /\ hasEscaped(characterController)
                   => hasEscaped(characterController')]_vars

\* the character has moved up to the exit row and escaped, and a later swap
\* of the level is in its cascade, which ends with the character advance
C39_CascadeAfterEscape ==
    /\ loads > 0
    /\ hasEscaped(characterController)
    /\ characterController.character.y < CurrentLevel.characterStart.y
    /\ \E i \in 1 .. Len(procs) :
          /\ procs[i].instance = loads
          /\ procs[i].pc \in {"animateMatch", "cascadeDelay"}

====
